---- MODULE Spec2Model ----
(***************************************************************************)
(* A model of arcpyext's map-document comparison (compare, with its nested *)
(* compare_data_frames, compare_layers and _layer_diff), as written in     *)
(* src/arcpyext/mapping/_mapping3.py and src/arcpyext/mp/_mp.py.           *)
(*                                                                         *)
(* Encoding of Python values:                                              *)
(*   - a dict is a TLA+ function whose DOMAIN is the set of its keys, so   *)
(*     `k in a` is  k \in DOMAIN a;                                        *)
(*   - a list is a sequence;                                               *)
(*   - the `was`/`now` slot of a DiffEntry holds either None or a value:   *)
(*     None is << >> and the value v is << v >>;                           *)
(*   - the strings that the code formats and parses (field names and the   *)
(*     field hashes) are sequences of one-character strings.               *)
(***************************************************************************)
EXTENDS Integers, Sequences, FiniteSets, TLC

VARIABLES
    \* ---- the two documents handed to compare(map_a, map_b) -------------
    module,       \* which of the two copies of compare runs: "mapping3" | "mp"
    map_a,        \* document: sequence of maps [layers, sr]
    map_b,
    \* ---- compare: control -----------------------------------------------
    pc,           \* position in compare / compare_layers / _layer_diff
    raised,       \* exception that left compare ("none" when it returned)
    logged,       \* messages passed to logger.exception, in order
    \* ---- compare_data_frames ---------------------------------------------
    index,        \* loop variable of `for index, a in enumerate(map_a_maps)`
    dataFrames,   \* the list `diff` of compare_data_frames
    \* ---- compare_layers --------------------------------------------------
    bound,        \* TRUE once the locals added/updated/removed are bound
    pool_kind,    \* what the flattening produced: "dict" records or "str" keys
    a_layers,     \* candidate pool of map_a
    b_layers,     \* candidate pool of map_b
    b_diff,       \* b_layer['diff'] of every after-layer (None until set)
    bi,           \* position of the outer loop `for b_layer in b_layers`
    ai,           \* position of the loop `for a_layer in a_layers`
    match,        \* the local `match`: None or <<j>>, j the after-layer returned
    resolved_a,   \* keys of the dict resolved_a
    resolved_b,   \* keys of the dict resolved_b
    added,        \* result lists, as positions in b_layers / a_layers
    updated,
    removed,
    matched,      \* history: the <<i, j, rule>> for which a matcher returned b
    \* ---- _layer_diff as a function of two records ------------------------
    d_a,          \* the two records given to _layer_diff
    d_b,
    d_call,       \* "ab": _layer_diff(d_a, d_b) runs; "ba": the reverse; "done"
    d_i,          \* position of `for test in tests`
    d_diff,       \* the list `diff` under construction
    d_keys,       \* history: the layer_prop_name that emitted each entry
    diff_ab,      \* returned by _layer_diff(d_a, d_b): [diff, keys]
    diff_ba,      \* returned by _layer_diff(d_b, d_a)
    \* ---- change_data_sources(project, data_sources) ----------------------
    rw_project,   \* the maps of the project: [layers, tables], each a sequence
                  \* of what updateConnectionProperties does to that item
    rw_sources,   \* data_sources: one dict per map
    rw_m,         \* position of `for proj_map, map_data_sources in zip_longest`
    rw_i,         \* position of the loop over the layers / the tables of the map
    rw_errors,    \* the list `errors`
    rw_calls,     \* history: the items updateConnectionProperties was called on
    rw_conn,      \* per item, the new properties updateConnectionProperties was last
                  \* called with (None while it has not been called on the item)
    rw_raised,    \* exception that left change_data_sources ([type |-> "none"]
                  \* when it returned)
    \* ---- create_replacement_data_sources_list ---------------------------
    t_docs,       \* document_data_sources_list
    t_templates,  \* data_source_templates
    t_strict,     \* raise_exception_no_change
    t_sets,       \* template_sets (None until built)
    t_at,         \* number of records handed to match_new_data_source so far
    t_new_conn,   \* new_conn of the last match_new_data_source call, after its loop
    t_out,        \* values returned by match_new_data_source, in order
    t_result,     \* the returned list (None until it returns)
    t_raised,     \* exception that left the call ([type |-> "none"] otherwise)
    \* ---- list_document_data_sources / _get_layer_details ------------------
    x_module,     \* which copy runs: "mapping3" | "mp"
    x_maps,       \* the vendor layer objects of each map of the document
    x_m,          \* map being listed
    x_out,        \* per map, the slots built so far
    x_logged,     \* messages passed to logger.exception
    \* ---- convert_service_draft_to_staged_service(sd_draft, sd_path) -----
    sg_draft,     \* sd_draft: a path or an object with a file_path attribute
    sg_draft_path,\* the local sd_draft_path (None until bound)
    sg_disk,      \* what is at sd_path: "absent" | "file" | "dir" | "staged"
    sg_proc,      \* the Process p: "none" | "created" | "started" | "exited"
    sg_args,      \* args the target of p was given (None until p is constructed)
    sg_exception, \* what the subprocess recorded: None or <<(error, traceback)>>
    sg_events,    \* history: "remove", "start", "run", "join", "check" in order
    sg_raised     \* exception that left the call ([type |-> "none"] otherwise)

vars == << module, map_a, map_b, pc, raised, logged, index, dataFrames, bound,
           pool_kind, a_layers, b_layers, b_diff, bi, ai, match, resolved_a,
           resolved_b, added, updated, removed, matched,
           d_a, d_b, d_call, d_i, d_diff, d_keys, diff_ab, diff_ba,
           rw_project, rw_sources, rw_m, rw_i, rw_errors, rw_calls, rw_conn,
           rw_raised,
           t_docs, t_templates, t_strict, t_sets, t_at, t_new_conn, t_out,
           t_result, t_raised,
           x_module, x_maps, x_m, x_out, x_logged,
           sg_draft, sg_draft_path, sg_disk, sg_proc, sg_args, sg_exception,
           sg_events, sg_raised >>

compareVars == << module, map_a, map_b, raised, logged, index, dataFrames, bound,
                  pool_kind, a_layers, b_layers, b_diff, bi, ai, match,
                  resolved_a, resolved_b, added, updated, removed, matched >>

diffVars == << d_a, d_b, d_call, d_i, d_diff, d_keys, diff_ab, diff_ba >>

changeVars == << rw_project, rw_sources, rw_m, rw_i, rw_errors, rw_calls, rw_conn,
                rw_raised >>

\* the variables of the functions other than compare
templateVars == << t_docs, t_templates, t_strict, t_sets, t_at, t_new_conn, t_out,
                  t_result, t_raised >>

extractVars == << x_module, x_maps, x_m, x_out, x_logged >>

stageVars == << sg_draft, sg_draft_path, sg_disk, sg_proc, sg_args, sg_exception,
               sg_events, sg_raised >>

toolVars == << changeVars, templateVars, extractVars, stageVars >>

-----------------------------------------------------------------------------
(* Python values *)

None == << >>

Some(v) == << v >>

Range(s) == { s[i] : i \in 1..Len(s) }

\* list(some_set): the elements of a set in an order the code does not control
Orderings(S) ==
    { s \in [1..Cardinality(S) -> S] :
        \A i, j \in 1..Cardinality(S) : i # j => s[i] # s[j] }

Digits == << "0", "1", "2", "3", "4", "5", "6", "7", "8", "9" >>

\* "%s" % n for a non-negative int
RECURSIVE str_int(_)
str_int(n) ==
    IF n < 10 THEN << Digits[n + 1] >>
    ELSE str_int(n \div 10) \o << Digits[(n % 10) + 1] >>

\* "%s" % v for a bool
str_bool(v) == IF v THEN << "T", "r", "u", "e" >> ELSE << "F", "a", "l", "s", "e" >>

DigitValue(c) == CHOOSE d \in 0..9 : Digits[d + 1] = c

\* int(s) for a string of decimal digits
RECURSIVE int(_)
int(s) ==
    IF Len(s) = 0 THEN 0
    ELSE 10 * int(SubSeq(s, 1, Len(s) - 1)) + DigitValue(s[Len(s)])

\* s.split("|")[0]
split_first(s) ==
    IF \E i \in 1..Len(s) : s[i] = "|"
    THEN LET i == CHOOSE i \in 1..Len(s) :
                      s[i] = "|" /\ \A j \in 1..(i - 1) : s[j] # "|"
         IN  SubSeq(s, 1, i - 1)
    ELSE s

-----------------------------------------------------------------------------
(* _layer_diff *)

layer_id_changed == 401
layer_name_changed == 402
layer_datasource_changed == 403
layer_visibility_changed == 404
layer_fields_changed == 405
layer_definition_query_changed == 406

\* the list `tests` of _layer_diff
layer_diff_tests ==
    << [layer_prop_name |-> "id", change_id |-> layer_id_changed],
       [layer_prop_name |-> "name", change_id |-> layer_name_changed],
       [layer_prop_name |-> "visible", change_id |-> layer_visibility_changed],
       [layer_prop_name |-> "workspacePath", change_id |-> layer_datasource_changed],
       [layer_prop_name |-> "datasetName", change_id |-> layer_datasource_changed],
       [layer_prop_name |-> "database", change_id |-> layer_datasource_changed],
       [layer_prop_name |-> "server", change_id |-> layer_datasource_changed],
       [layer_prop_name |-> "service", change_id |-> layer_datasource_changed],
       [layer_prop_name |-> "definitionQuery",
        change_id |-> layer_definition_query_changed],
       [layer_prop_name |-> "fields", change_id |-> layer_fields_changed,
        array |-> TRUE] >>

\* an equality check for which a key absent from both records is equal
eq_absent_is_equal(a, b, k) ==
    IF k \in DOMAIN a /\ k \in DOMAIN b THEN b[k] = a[k]
    ELSE k \notin DOMAIN a /\ k \notin DOMAIN b

\* eq = lambda a, b, k: b[k] == a[k] if k in a and k in b else False
eq(a, b, k) == IF k \in DOMAIN a /\ k \in DOMAIN b THEN b[k] = a[k] ELSE FALSE

_express_diff(a, b, k, type) ==
    [type |-> type,
     was  |-> IF k \in DOMAIN a THEN Some(a[k]) ELSE None,
     now  |-> IF k \in DOMAIN b THEN Some(b[k]) ELSE None]

\* hash with the visibility left out of the key
hash_without_visible(_dict) ==
    str_int(_dict.index) \o << "|" >> \o _dict.name

\* "hash": lambda _dict: "%s|%s|%s" % (_dict['index'], _dict['name'], _dict['visible'])
hash(_dict) ==
    str_int(_dict.index) \o << "|" >> \o _dict.name \o << "|" >> \o str_bool(_dict.visible)

\* "unhash": lambda hash: hash.split("|")[0]
unhash(h) == split_first(h)

\* inflate(arr, index): [x for x in arr if x['index'] == int(index)][0]
inflate(arr, idx) == SelectSeq(arr, LAMBDA x : x.index = int(idx))[1]

\* is_array = test["array"] == True if "array" in test else False
is_array(test) == IF "array" \in DOMAIN test THEN test.array = TRUE ELSE FALSE

\* array_diff reporting every field of b as `now`, not only those missing from a
array_diff_now_all(a, b, k, v) ==
    LET hashed_a == { hash(a[k][i]) : i \in 1..Len(a[k]) }
        hashed_b == { hash(b[k][i]) : i \in 1..Len(b[k]) }
    IN  IF hashed_a # hashed_b
        THEN { << [type |-> v,
                   was  |-> Some([i \in 1..Len(w) |-> inflate(a[k], unhash(w[i]))]),
                   now  |-> Some([i \in 1..Len(n) |-> inflate(b[k], unhash(n[i]))])] >> :
                 w \in Orderings(hashed_a \ hashed_b),
                 n \in Orderings(hashed_b) }
        ELSE { << >> }

\* The entry of an array-valued property present in both records: the lists
\* `was` and `now` are built from sets, so each may come in any order.
array_diff(a, b, k, v) ==
    LET hashed_a == { hash(a[k][i]) : i \in 1..Len(a[k]) }
        hashed_b == { hash(b[k][i]) : i \in 1..Len(b[k]) }
    IN  IF hashed_a # hashed_b
        THEN { << [type |-> v,
                   was  |-> Some([i \in 1..Len(w) |-> inflate(a[k], unhash(w[i]))]),
                   now  |-> Some([i \in 1..Len(n) |-> inflate(b[k], unhash(n[i]))])] >> :
                 w \in Orderings(hashed_a \ hashed_b),
                 n \in Orderings(hashed_b \ hashed_a) }
        ELSE { << >> }

\* One iteration of `for test in tests`: the entries it may append to diff.
test_property(a, b, test) ==
    LET k == test.layer_prop_name
        v == test.change_id
    IN  IF k \in DOMAIN a /\ k \in DOMAIN b
        THEN IF is_array(test)
             THEN array_diff(a, b, k, v)
             ELSE IF ~ eq(a, b, k)
                  THEN { << _express_diff(a, b, k, v) >> }
                  ELSE { << >> }
        ELSE { << _express_diff(a, b, k, v) >> }

RECURSIVE run_tests(_, _, _)
run_tests(a, b, i) ==
    IF i > Len(layer_diff_tests) THEN { << >> }
    ELSE { d \o rest : d \in test_property(a, b, layer_diff_tests[i]),
                       rest \in run_tests(a, b, i + 1) }

\* _layer_diff(a, b): every list the call may return
_layer_diff(a, b) == run_tests(a, b, 1)

-----------------------------------------------------------------------------
(* Inputs of _layer_diff: bounded sets of layer records *)

MaxVary == 1      \* scalar attributes on which the two records may leave the base
MaxFields == 2    \* fields of one layer

FieldNames == { << "F", "1" >>, << "F", "|", "2" >> }

\* details["fields"] as _get_layer_details builds it: the i-th record has index i-1
FieldLists ==
    UNION { { [i \in 1..n |-> [index |-> i - 1, name |-> nm[i], visible |-> vs[i]]] :
                nm \in [1..n -> FieldNames], vs \in [1..n -> BOOLEAN] } :
            n \in 0..MaxFields }

\* the attributes _layer_diff tests
DiffKeys == { layer_diff_tests[i].layer_prop_name : i \in 1..Len(layer_diff_tests) }

ScalarKeys == DiffKeys \ { "fields" }

Choices(k) ==
    CASE k = "id" -> { 1, 2 }
      [] k = "name" -> { "A", "Roads" }
      [] k = "visible" -> BOOLEAN
      [] k = "workspacePath" -> { "C:/data/a.gdb", "C:/data/b.gdb" }
      [] k = "datasetName" -> { "roads_2020", "roads_2021" }
      [] k = "database" -> { "gis", "gis_test" }
      [] k = "server" -> { "db1", "db2" }
      [] k = "service" -> { "5151", "5152" }
      [] k = "definitionQuery" -> { "", "TYPE = 1" }
      [] k = "fields" -> FieldLists

With(r, k, v) == [x \in (DOMAIN r) \cup { k } |-> IF x = k THEN v ELSE r[x]]

Without(r, k) == [x \in (DOMAIN r) \ { k } |-> r[x]]

\* a layer that supports nothing but its name, and one that supports everything
BareLayer == [name |-> "A"]

FullLayer ==
    [id |-> 1, name |-> "A", visible |-> TRUE, workspacePath |-> "C:/data/a.gdb",
     datasetName |-> "roads_2020", database |-> "gis", server |-> "db1",
     service |-> "5151", definitionQuery |-> "",
     fields |-> << [index |-> 0, name |-> << "F", "1" >>, visible |-> TRUE] >>]

\* the records that differ from base on the attributes P only (name is never absent)
RECURSIVE Variants(_, _)
Variants(base, P) ==
    IF P = {} THEN { base }
    ELSE LET k == CHOOSE x \in P : TRUE
         IN  UNION { (IF k = "name" THEN {} ELSE { Without(r, k) })
                        \cup { With(r, k, v) : v \in Choices(k) } :
                     r \in Variants(base, P \ { k }) }

\* pairs that differ from a base record on at most MaxVary scalar attributes, or
\* on their fields
DiffInputs ==
    UNION { { << a, b >> : a \in Variants(base, P), b \in Variants(base, P) } :
            base \in { BareLayer, FullLayer },
            P \in { Q \in SUBSET ScalarKeys : Cardinality(Q) <= MaxVary }
                     \cup { { "fields" } } }

-----------------------------------------------------------------------------
(* compare has not been entered: the values of its variables *)

CompareIdle ==
    /\ module = "mapping3" /\ map_a = << >> /\ map_b = << >>
    /\ raised = "none" /\ logged = << >>
    /\ index = 0 /\ dataFrames = << >>
    /\ bound = FALSE /\ pool_kind = "dict"
    /\ a_layers = << >> /\ b_layers = << >> /\ b_diff = << >>
    /\ bi = 1 /\ ai = 1 /\ match = None
    /\ resolved_a = {} /\ resolved_b = {}
    /\ added = << >> /\ updated = << >> /\ removed = << >>
    /\ matched = {}

DiffIdle ==
    /\ d_a = BareLayer /\ d_b = BareLayer /\ d_call = "done" /\ d_i = 1
    /\ d_diff = << >> /\ d_keys = << >> /\ diff_ab = None /\ diff_ba = None

\* change_data_sources has not been entered
ChangeIdle ==
    /\ rw_project = << >> /\ rw_sources = << >> /\ rw_m = 1 /\ rw_i = 1
    /\ rw_errors = << >> /\ rw_calls = << >> /\ rw_raised = [type |-> "none"]
    /\ rw_conn = << >>

TemplateIdle ==
    /\ t_docs = << >> /\ t_templates = << >> /\ t_strict = FALSE /\ t_sets = None
    /\ t_at = 0 /\ t_new_conn = None /\ t_out = << >> /\ t_result = None
    /\ t_raised = [type |-> "none"]

ExtractIdle ==
    /\ x_module = "mapping3" /\ x_maps = << >> /\ x_m = 1
    /\ x_out = << >> /\ x_logged = << >>

\* convert_service_draft_to_staged_service has not been entered
StageIdle ==
    /\ sg_draft = [path |-> ""] /\ sg_draft_path = None /\ sg_disk = "absent"
    /\ sg_proc = "none" /\ sg_args = None /\ sg_exception = None
    /\ sg_events = << >> /\ sg_raised = [type |-> "none"]

ToolsIdle == ChangeIdle /\ TemplateIdle /\ ExtractIdle /\ StageIdle

-----------------------------------------------------------------------------
(* _layer_diff(d_a, d_b) and then _layer_diff(d_b, d_a), one test at a time *)

InitDiff ==
    /\ CompareIdle
    /\ ToolsIdle
    /\ pc = "layer_diff"
    /\ \E p \in DiffInputs : d_a = p[1] /\ d_b = p[2]
    /\ d_call = "ab" /\ d_i = 1 /\ d_diff = << >> /\ d_keys = << >>
    /\ diff_ab = None /\ diff_ba = None

\* one iteration of `for test in tests:` of _layer_diff
LayerDiffTest ==
    /\ pc = "layer_diff" /\ d_call \in { "ab", "ba" }
    /\ d_i <= Len(layer_diff_tests)
    /\ LET a == IF d_call = "ab" THEN d_a ELSE d_b
           b == IF d_call = "ab" THEN d_b ELSE d_a
           test == layer_diff_tests[d_i]
       IN  \E e \in test_property(a, b, test) :
              /\ d_diff' = d_diff \o e
              /\ d_keys' = d_keys \o [i \in 1..Len(e) |-> test.layer_prop_name]
    /\ d_i' = d_i + 1
    /\ UNCHANGED << d_a, d_b, d_call, diff_ab, diff_ba, pc >>
    /\ UNCHANGED compareVars
    /\ UNCHANGED toolVars

\* `return diff` of _layer_diff
LayerDiffReturn ==
    /\ pc = "layer_diff" /\ d_call \in { "ab", "ba" }
    /\ d_i > Len(layer_diff_tests)
    /\ IF d_call = "ab"
       THEN /\ diff_ab' = Some([diff |-> d_diff, keys |-> d_keys])
            /\ d_call' = "ba"
            /\ UNCHANGED diff_ba
       ELSE /\ diff_ba' = Some([diff |-> d_diff, keys |-> d_keys])
            /\ d_call' = "done"
            /\ UNCHANGED diff_ab
    /\ d_i' = 1 /\ d_diff' = << >> /\ d_keys' = << >>
    /\ UNCHANGED << d_a, d_b, pc >>
    /\ UNCHANGED compareVars
    /\ UNCHANGED toolVars

NextDiff == LayerDiffTest \/ LayerDiffReturn

SpecDiff == InitDiff /\ [][NextDiff]_vars

-----------------------------------------------------------------------------
(* compare_layers: the correlation of the two candidate pools *)

same_id(a, b) == eq(a, b, "id")

same_name(a, b) == eq(a, b, "name")

same_datasource(a, b) == eq(a, b, "datasetName")

\* is_resolved_a that finds no name resolved
is_resolved_a_never(x, ra) == FALSE

\* is_resolved_a = lambda x: x['name'] in resolved_a   (ra: the keys of resolved_a)
is_resolved_a(x, ra) == x.name \in ra

\* is_resolved_b that finds every name resolved
is_resolved_b_always(x, rb) == TRUE

\* is_resolved_b = lambda x: x['name'] in resolved_b
is_resolved_b(x, rb) == x.name \in rb

NumTests == 6

\* tests[t]['fn'](a, b) is not None, for the six entries of the list `tests`
matcher(t, a, b, ra, rb) ==
    CASE t = 1 -> same_id(a, b) /\ same_name(a, b) /\ same_datasource(a, b)
      [] t = 2 -> /\ same_id(a, b) /\ same_name(a, b)
                  /\ ~ is_resolved_a(a, ra) /\ ~ is_resolved_b(b, rb)
      [] t = 3 -> /\ same_id(a, b) /\ same_datasource(a, b)
                  /\ ~ is_resolved_a(a, ra) /\ ~ is_resolved_b(b, rb)
      [] t = 4 -> /\ same_id(a, b)
                  /\ ~ is_resolved_a(a, ra) /\ ~ is_resolved_b(b, rb)
      [] t = 5 -> /\ same_name(a, b) /\ same_datasource(a, b)
                  /\ ~ is_resolved_a(a, ra) /\ ~ is_resolved_b(b, rb)
      [] t = 6 -> /\ same_name(a, b)
                  /\ ~ is_resolved_a(a, ra) /\ ~ is_resolved_b(b, rb)

\* no test carries the ignore flag
ignore_never(t) == FALSE

\* ignore = True if 'ignore' in test and test['ignore'] == True else False
ignore(t) == t = 1

\* The loop `for index, test in enumerate(tests)` for the pair (a_layers[i],
\* b_layers[j]), from test t on. st holds the locals the loop reads and writes;
\* d is the list that _layer_diff(a_layer, b_layer) returns if it is called.
RECURSIVE run_tests_on_pair(_, _, _, _, _)
run_tests_on_pair(st, i, j, t, d) ==
    IF t > NumTests THEN st
    ELSE LET a == a_layers[i]
             b == b_layers[j]
         IN  IF matcher(t, a, b, st.resolved_a, st.resolved_b)
             THEN LET st1 == [st EXCEPT !.match = Some(j),
                                        !.resolved_a = @ \cup { a.name },
                                        !.resolved_b = @ \cup { b.name },
                                        !.b_diff = [@ EXCEPT ![j] = Some(d)],
                                        !.matched = @ \cup { << i, j, t >> }]
                  IN  IF ~ ignore(t) \/ Len(d) > 0
                      THEN [st1 EXCEPT !.updated = Append(@, j)]
                      ELSE run_tests_on_pair(st1, i, j, t + 1, d)
             ELSE run_tests_on_pair([st EXCEPT !.match = None], i, j, t + 1, d)

Locals ==
    [match |-> match, resolved_a |-> resolved_a, resolved_b |-> resolved_b,
     b_diff |-> b_diff, updated |-> updated, matched |-> matched]

\* where compare_layers goes once `for b_layer in b_layers` has position j
AfterB(j) ==
    IF j <= Len(b_layers) THEN "match"
    ELSE IF Len(a_layers) > 0 THEN "removed" ELSE "finally"

\* `k in s` and s[k] when the pool items are str, not dict: the keys of a layer
\* record. For the keys _get_layer_details writes, 'id', 'name' and 'datasetName'
\* are a substring of the key that equals them and of no other key.
str_contains(s, k) == s = k

\* evaluating eq(a, b, k) on two str raises TypeError (str indices must be
\* integers) when both contain k, and is False otherwise
str_eq_raises(a, b, k) == str_contains(a, k) /\ str_contains(b, k)

\* whether the six tests raise on the str pair (a, b): tests 1-4 evaluate
\* same_id first, tests 5 and 6 same_name first; none of them can match
str_pair_raises(a, b) == str_eq_raises(a, b, "id") \/ str_eq_raises(a, b, "name")

\* except Exception: logger.exception("Error comparing layers")
LayersExcept ==
    /\ logged' = Append(logged, "Error comparing layers")
    /\ pc' = "finally"

\* the body of `for a_layer in a_layers:` for the current b_layer
ScanPair ==
    /\ pc = "match" /\ bi <= Len(b_layers) /\ ai <= Len(a_layers)
    /\ IF pool_kind = "str"
       THEN IF str_pair_raises(a_layers[ai], b_layers[bi])
            THEN /\ LayersExcept
                 /\ UNCHANGED << ai, match, resolved_a, resolved_b, b_diff, updated,
                                 matched >>
            ELSE /\ ai' = ai + 1
                 /\ match' = None
                 /\ UNCHANGED << pc, logged, resolved_a, resolved_b, b_diff, updated,
                                 matched >>
       ELSE /\ \E d \in _layer_diff(a_layers[ai], b_layers[bi]) :
                 LET st == run_tests_on_pair(Locals, ai, bi, 1, d)
                 IN  /\ match' = st.match
                     /\ resolved_a' = st.resolved_a
                     /\ resolved_b' = st.resolved_b
                     /\ b_diff' = st.b_diff
                     /\ updated' = st.updated
                     /\ matched' = st.matched
            /\ ai' = ai + 1
            /\ UNCHANGED << pc, logged >>
    /\ UNCHANGED << module, map_a, map_b, raised, index, dataFrames, bound, pool_kind,
                    a_layers, b_layers, bi, added, removed >>
    /\ UNCHANGED diffVars
    /\ UNCHANGED toolVars

\* `if match is None and not is_resolved_b(b_layer):` after the scan of a_layers,
\* then the next b_layer (whose first statement is match = None)
NewLayer ==
    /\ pc = "match" /\ bi <= Len(b_layers) /\ ai > Len(a_layers)
    /\ IF pool_kind = "str" /\ match = None
       THEN \* b_layer['name'] on a str raises TypeError
            /\ LayersExcept
            /\ UNCHANGED << bi, ai, match, resolved_b, added >>
       ELSE /\ IF match = None /\ ~ is_resolved_b(b_layers[bi], resolved_b)
               THEN /\ resolved_b' = resolved_b \cup { b_layers[bi].name }
                    /\ added' = Append(added, bi)
               ELSE UNCHANGED << resolved_b, added >>
            /\ bi' = bi + 1
            /\ ai' = 1
            /\ match' = None
            /\ pc' = AfterB(bi + 1)
            /\ UNCHANGED logged
    /\ UNCHANGED << module, map_a, map_b, raised, index, dataFrames, bound, pool_kind,
                    a_layers, b_layers, b_diff, resolved_a, updated, removed, matched >>
    /\ UNCHANGED diffVars
    /\ UNCHANGED toolVars

\* the body of the second `for a_layer in a_layers:` (removed layers)
RemovedLayer ==
    /\ pc = "removed" /\ ai <= Len(a_layers)
    /\ IF pool_kind = "str"
       THEN \* a_layer['name'] on a str raises TypeError
            /\ LayersExcept
            /\ UNCHANGED << ai, resolved_a, removed >>
       ELSE /\ IF ~ is_resolved_a(a_layers[ai], resolved_a)
               THEN /\ resolved_a' = resolved_a \cup { a_layers[ai].name }
                    /\ removed' = Append(removed, ai)
               ELSE UNCHANGED << resolved_a, removed >>
            /\ ai' = ai + 1
            /\ pc' = IF ai + 1 <= Len(a_layers) THEN "removed" ELSE "finally"
            /\ UNCHANGED logged
    /\ UNCHANGED << module, map_a, map_b, raised, index, dataFrames, bound, pool_kind,
                    a_layers, b_layers, b_diff, bi, match, resolved_b, added, updated,
                    matched >>
    /\ UNCHANGED diffVars
    /\ UNCHANGED toolVars

\* finally: return {'added': added, 'updated': updated, 'removed': removed}
\* The three names are bound only once the line `added = []` has run; reading
\* an unbound local raises UnboundLocalError, which leaves compare.
ReturnLayers ==
    /\ pc = "finally"
    /\ pc' = "done"
    /\ raised' = IF bound THEN "none" ELSE "UnboundLocalError"
    /\ UNCHANGED << module, map_a, map_b, logged, index, dataFrames, bound, pool_kind,
                    a_layers, b_layers, b_diff, bi, ai, match, resolved_a, resolved_b,
                    added, updated, removed, matched >>
    /\ UNCHANGED diffVars
    /\ UNCHANGED toolVars

-----------------------------------------------------------------------------
(* Candidate pools handed to the correlation loop *)

MaxBefore == 2    \* layers in the before pool
MaxAfter == 2     \* layers in the after pool

SampleLayers ==
    { [id |-> 1, name |-> "Roads", datasetName |-> "roads_2020"],
      [id |-> 1, name |-> "Roads", datasetName |-> "roads_2021"],
      [id |-> 2, name |-> "Roads", datasetName |-> "roads_2021"],
      [id |-> 1, name |-> "A"],
      [name |-> "Roads"],
      FullLayer }

Pools(n) == UNION { [1..m -> SampleLayers] : m \in 0..n }

InitLayers ==
    /\ DiffIdle
    /\ ToolsIdle
    /\ module = "mp" /\ map_a = << >> /\ map_b = << >>
    /\ raised = "none" /\ logged = << >>
    /\ index = 0 /\ dataFrames = << >>
    /\ bound = TRUE /\ pool_kind = "dict"
    /\ a_layers \in Pools(MaxBefore)
    /\ b_layers \in Pools(MaxAfter)
    /\ b_diff = [j \in 1..Len(b_layers) |-> None]
    /\ bi = 1 /\ ai = 1 /\ match = None
    /\ resolved_a = {} /\ resolved_b = {}
    /\ added = << >> /\ updated = << >> /\ removed = << >>
    /\ matched = {}
    /\ pc = AfterB(1)

NextLayers == ScanPair \/ NewLayer \/ RemovedLayer \/ ReturnLayers

SpecLayers == InitLayers /\ [][NextLayers]_vars

-----------------------------------------------------------------------------
(* compare(map_a, map_b): compare_data_frames(), then compare_layers() *)

map_count_changed == 301
data_frame_cs_code_changed == 302
data_frame_cs_name_changed == 303
data_frame_cs_type_changed == 304

\* except Exception: logger.exception("Error comparing data frames"); the
\* finally clause returns diff, and compare goes on to compare_layers()
FramesExcept ==
    /\ logged' = Append(logged, "Error comparing data frames")
    /\ pc' = "layers_start"

\* compare_data_frames up to its loop: the two map counts. In _mp.py the code is
\* bound to the name data_frame_count_changed, so building the entry with
\* map_count_changed raises NameError.
DataFramesCount ==
    /\ pc = "frames_count"
    /\ IF Len(map_b) = 0 \/ Len(map_a) # Len(map_b)
       THEN IF module = "mp"
            THEN FramesExcept /\ UNCHANGED dataFrames
            ELSE /\ dataFrames' = Append(dataFrames,
                                         [type |-> map_count_changed,
                                          was |-> Len(map_a), now |-> Len(map_b)])
                 /\ pc' = IF Len(map_a) > 0 THEN "frames_loop" ELSE "layers_start"
                 /\ UNCHANGED logged
       ELSE /\ pc' = IF Len(map_a) > 0 THEN "frames_loop" ELSE "layers_start"
            /\ UNCHANGED << dataFrames, logged >>
    /\ index' = 0
    /\ UNCHANGED << module, map_a, map_b, raised, bound, pool_kind, a_layers, b_layers,
                    b_diff, bi, ai, match, resolved_a, resolved_b, added, updated,
                    removed, matched >>
    /\ UNCHANGED diffVars
    /\ UNCHANGED toolVars

\* the entries one iteration appends for the spatial references a and b
spatial_reference_diff(a, b) ==
    (IF a.factoryCode # b.factoryCode
     THEN << [type |-> data_frame_cs_code_changed,
              was |-> a.factoryCode, now |-> b.factoryCode] >>
     ELSE << >>)
    \o (IF a.type # b.type
        THEN << [type |-> data_frame_cs_type_changed, was |-> a.type, now |-> b.type] >>
        ELSE << >>)
    \o (IF a.name # b.name
        THEN << [type |-> data_frame_cs_name_changed, was |-> a.name, now |-> b.name] >>
        ELSE << >>)

\* one iteration of `for index, a in enumerate(map_a_maps)`; map_b_maps[index]
\* raises IndexError when map_b has no map at that position
DataFramesMap ==
    /\ pc = "frames_loop" /\ index < Len(map_a)
    /\ IF index >= Len(map_b)
       THEN FramesExcept /\ UNCHANGED << dataFrames, index >>
       ELSE /\ dataFrames' = dataFrames
                                \o spatial_reference_diff(map_a[index + 1].sr,
                                                          map_b[index + 1].sr)
            /\ index' = index + 1
            /\ pc' = IF index + 1 < Len(map_a) THEN "frames_loop" ELSE "layers_start"
            /\ UNCHANGED logged
    /\ UNCHANGED << module, map_a, map_b, raised, bound, pool_kind, a_layers, b_layers,
                    b_diff, bi, ai, match, resolved_a, resolved_b, added, updated,
                    removed, matched >>
    /\ UNCHANGED diffVars
    /\ UNCHANGED toolVars

RECURSIVE Concat(_)
Concat(ss) == IF Len(ss) = 0 THEN << >> ELSE ss[1] \o Concat(Tail(ss))

\* the order in which _get_layer_details (and, in _mp.py, the enrichment of
\* list_document_data_sources) writes the keys of a layer record
KeyOrder ==
    << "name", "datasetName", "server", "service", "database", "workspacePath",
       "visible", "definitionQuery", "fields", "id" >>

\* iterating a dict yields its keys
layer_keys(rec) == SelectSeq(KeyOrder, LAMBDA k : k \in DOMAIN rec)

\* the records of a list of layer slots, group-layer placeholders (None) left out
not_none(layers) ==
    LET kept == SelectSeq(layers, LAMBDA slot : slot # None)
    IN  [n \in 1..Len(kept) |-> kept[n][1]]

\* whether building the candidate pool of doc raises. _mapping3.py reads
\* a[0]['layers'] (IndexError without a map) and iterates every element of that
\* list (TypeError on None); _mp.py does neither.
flatten_raises(mod, doc) ==
    /\ mod = "mapping3"
    /\ \/ Len(doc) = 0
       \/ \E n \in 1..Len(doc[1].layers) : doc[1].layers[n] = None

\* [item for sublist in ... for item in sublist if item is not None]
\* _mapping3.py: sublist ranges over the layer records of the first map, item
\* over the keys of each; _mp.py: sublist ranges over the maps, item over the
\* layer records of each.
flatten(mod, doc) ==
    IF mod = "mapping3"
    THEN Concat([n \in 1..Len(doc[1].layers) |-> layer_keys(doc[1].layers[n][1])])
    ELSE Concat([m \in 1..Len(doc) |-> not_none(doc[m].layers)])

\* compare_layers from list_document_data_sources to the line before the loop
FlattenLayers ==
    /\ pc = "layers_start"
    /\ IF flatten_raises(module, map_a) \/ flatten_raises(module, map_b)
       THEN /\ LayersExcept
            /\ UNCHANGED << bound, pool_kind, a_layers, b_layers, b_diff >>
       ELSE /\ a_layers' = flatten(module, map_a)
            /\ b_layers' = flatten(module, map_b)
            /\ pool_kind' = IF module = "mapping3" THEN "str" ELSE "dict"
            /\ b_diff' = [j \in 1..Len(flatten(module, map_b)) |-> None]
            /\ bound' = TRUE
            /\ pc' = IF Len(flatten(module, map_b)) > 0 THEN "match"
                     ELSE IF Len(flatten(module, map_a)) > 0 THEN "removed"
                     ELSE "finally"
            /\ UNCHANGED logged
    /\ UNCHANGED << module, map_a, map_b, raised, index, dataFrames, bi, ai, match,
                    resolved_a, resolved_b, added, updated, removed, matched >>
    /\ UNCHANGED diffVars
    /\ UNCHANGED toolVars

-----------------------------------------------------------------------------
(* Documents handed to compare *)

MaxMaps == 2         \* maps of one document
MaxMapLayers == 1    \* layers of one map

SpatialRefs ==
    { [factoryCode |-> 4326, type |-> "Geographic", name |-> "GCS_WGS_1984"],
      [factoryCode |-> 4283, type |-> "Geographic", name |-> "GCS_GDA_1994"],
      [factoryCode |-> 3857, type |-> "Projected",
       name |-> "WGS_1984_Web_Mercator_Auxiliary_Sphere"] }

\* a slot of listLayers() after _get_layer_details: None for a group layer
LayerSlots == { None, Some([name |-> "Roads", datasetName |-> "roads_2020"]),
                Some(FullLayer) }

Maps ==
    { [layers |-> l, sr |-> r] :
        l \in UNION { [1..n -> LayerSlots] : n \in 0..MaxMapLayers },
        r \in SpatialRefs }

Documents == UNION { [1..n -> Maps] : n \in 0..MaxMaps }

Init ==
    /\ DiffIdle
    /\ ToolsIdle
    /\ module \in { "mapping3", "mp" }
    /\ map_a \in Documents
    /\ map_b \in Documents
    /\ pc = "frames_count"
    /\ raised = "none" /\ logged = << >>
    /\ index = 0 /\ dataFrames = << >>
    /\ bound = FALSE /\ pool_kind = "dict"
    /\ a_layers = << >> /\ b_layers = << >> /\ b_diff = << >>
    /\ bi = 1 /\ ai = 1 /\ match = None
    /\ resolved_a = {} /\ resolved_b = {}
    /\ added = << >> /\ updated = << >> /\ removed = << >>
    /\ matched = {}

Next ==
    \/ DataFramesCount
    \/ DataFramesMap
    \/ FlattenLayers
    \/ ScanPair
    \/ NewLayer
    \/ RemovedLayer
    \/ ReturnLayers

Spec == Init /\ [][Next]_vars

-----------------------------------------------------------------------------
(* change_data_sources(project, data_sources)                              *)
(*                                                                         *)
(* An item of a map (layer or table) is modelled by what its               *)
(* updateConnectionProperties does: "ok", "raises" (it raises) or "broken" *)
(* (it returns and the item then reports isBroken). The value of the       *)
(* 'layers' / 'tableViews' key of a data-sources dict is None or Some(list)*)
(* and each element of the list is None or Some(replacement).              *)

\* whether `except MapLayerError` catches the DataSourceUpdateError raised by
\* _change_data_source (the exception classes are declared outside these files)
DataSourceUpdateError_is_MapLayerError == TRUE

\* zip_longest pads the shorter argument with None
zip_longest_len(a, b) == IF Len(a) > Len(b) THEN Len(a) ELSE Len(b)

\* ChangeDataSourcesError(message, errors=None)
ChangeDataSourcesError(message, errors) ==
    [type |-> "ChangeDataSourcesError", message |-> message, errors |-> errors]

\* _change_data_source(layer, new_props): "ok" when it returns, else the
\* message of the DataSourceUpdateError it raises
_change_data_source(behaviour) ==
    CASE behaviour = "raises" -> "Exception raised internally by ArcPy"
      [] behaviour = "broken" -> "Layer is now broken."
      [] OTHER -> "ok"

\* where the walk goes after the tables of map m
AfterMap(m) ==
    IF m + 1 <= zip_longest_len(rw_project, rw_sources) THEN "rw_map" ELSE "rw_end"

\* the body of the try statement without `if layer_source == None: continue`
update_item_without_continue(m, kind, i, behaviour, src) ==
    LET new_props == IF src = None THEN [map |-> 0, kind |-> kind, item |-> 0]
                     ELSE IF kind = "layer" THEN src[1] ELSE src[1].connectionProperties
        result == _change_data_source(behaviour)
        calls == Append(rw_calls, << m, kind, i >>)
        conn == IF kind = "layer"
                THEN [rw_conn EXCEPT ![m].layers[i] = Some(new_props)]
                ELSE [rw_conn EXCEPT ![m].tables[i] = Some(new_props)]
    IN  IF result = "ok"
        THEN [errors |-> rw_errors, calls |-> calls, conn |-> conn, raised |-> rw_raised]
        ELSE [errors |-> Append(rw_errors, [at |-> << m, kind, i >>, message |-> result]),
              calls |-> calls, conn |-> conn, raised |-> rw_raised]

\* the body of the try statement for item i of the list `kind` of map m, given
\* its replacement src: the values of errors, of the history of calls and of the
\* exception that leaves change_data_sources
update_item(m, kind, i, behaviour, src) ==
    IF src = None
    THEN [errors |-> rw_errors, calls |-> rw_calls, conn |-> rw_conn, raised |-> rw_raised]
    ELSE LET new_props == IF kind = "layer" THEN src[1] ELSE src[1].connectionProperties
             result == _change_data_source(behaviour)
             calls == Append(rw_calls, << m, kind, i >>)
             conn == IF kind = "layer"
                     THEN [rw_conn EXCEPT ![m].layers[i] = Some(new_props)]
                     ELSE [rw_conn EXCEPT ![m].tables[i] = Some(new_props)]
         IN  IF result = "ok"
             THEN [errors |-> rw_errors, calls |-> calls, conn |-> conn, raised |-> rw_raised]
             ELSE IF DataSourceUpdateError_is_MapLayerError
             THEN [errors |-> Append(rw_errors, [at |-> << m, kind, i >>,
                                                 message |-> result]),
                   calls |-> calls, conn |-> conn, raised |-> rw_raised]
             ELSE [errors |-> rw_errors, calls |-> calls, conn |-> conn,
                   raised |-> [type |-> "DataSourceUpdateError", message |-> result]]

\* the head of one iteration of the loop over the maps: the two key tests,
\* listLayers() and the test of the number of layers
MapStart ==
    /\ pc = "rw_map" /\ rw_m <= zip_longest_len(rw_project, rw_sources)
    /\ IF rw_m > Len(rw_sources)
       THEN \* map_data_sources is None: `'layers' in None` raises TypeError
            /\ rw_raised' = [type |-> "TypeError"] /\ pc' = "rw_done"
       ELSE IF ~ ({ "layers", "tableViews" } \subseteq DOMAIN rw_sources[rw_m])
       THEN /\ rw_raised' = ChangeDataSourcesError(
                   "Data sources dictionary does not contain both layers and tableViews keys",
                   None)
            /\ pc' = "rw_done"
       ELSE IF rw_m > Len(rw_project)
       THEN \* proj_map is None: None.listLayers() raises AttributeError
            /\ rw_raised' = [type |-> "AttributeError"] /\ pc' = "rw_done"
       ELSE IF \/ rw_sources[rw_m].layers = None
               \/ Len(rw_project[rw_m].layers) # Len(rw_sources[rw_m].layers[1])
       THEN /\ rw_raised' = ChangeDataSourcesError(
                   "Number of layers does not match number of data sources.", None)
            /\ pc' = "rw_done"
       ELSE /\ pc' = IF Len(rw_project[rw_m].layers) > 0 THEN "rw_layers"
                     ELSE "rw_tables_check"
            /\ UNCHANGED rw_raised
    /\ rw_i' = 1
    /\ UNCHANGED << rw_project, rw_sources, rw_m, rw_errors, rw_calls, rw_conn >>
    /\ UNCHANGED << compareVars, diffVars, templateVars, extractVars, stageVars >>

\* one iteration of `for layer, layer_source in zip_longest(layers, layer_sources)`
UpdateLayer ==
    /\ pc = "rw_layers" /\ rw_i <= Len(rw_project[rw_m].layers)
    /\ LET st == update_item(rw_m, "layer", rw_i, rw_project[rw_m].layers[rw_i],
                             rw_sources[rw_m].layers[1][rw_i])
       IN  /\ rw_errors' = st.errors
           /\ rw_calls' = st.calls
           /\ rw_conn' = st.conn
           /\ rw_raised' = st.raised
           /\ pc' = IF st.raised.type # "none" THEN "rw_done"
                    ELSE IF rw_i + 1 <= Len(rw_project[rw_m].layers) THEN "rw_layers"
                    ELSE "rw_tables_check"
    /\ rw_i' = rw_i + 1
    /\ UNCHANGED << rw_project, rw_sources, rw_m >>
    /\ UNCHANGED << compareVars, diffVars, templateVars, extractVars, stageVars >>

\* listTables() and the test of the number of tables
TablesStart ==
    /\ pc = "rw_tables_check"
    /\ IF rw_sources[rw_m].tableViews = None
       THEN \* len(None) raises TypeError
            /\ rw_raised' = [type |-> "TypeError"] /\ pc' = "rw_done"
            /\ UNCHANGED rw_m
       ELSE IF Len(rw_project[rw_m].tables) # Len(rw_sources[rw_m].tableViews[1])
       THEN /\ rw_raised' = ChangeDataSourcesError(
                   "Number of data tables does not match number of data table data sources.",
                   None)
            /\ pc' = "rw_done"
            /\ UNCHANGED rw_m
       ELSE IF Len(rw_project[rw_m].tables) > 0
       THEN pc' = "rw_tables" /\ UNCHANGED << rw_raised, rw_m >>
       ELSE pc' = AfterMap(rw_m) /\ rw_m' = rw_m + 1 /\ UNCHANGED rw_raised
    /\ rw_i' = 1
    /\ UNCHANGED << rw_project, rw_sources, rw_errors, rw_calls, rw_conn >>
    /\ UNCHANGED << compareVars, diffVars, templateVars, extractVars, stageVars >>

\* one iteration of `for data_table, layer_source in zip_longest(data_tables,
\* data_table_sources)`
UpdateTable ==
    /\ pc = "rw_tables" /\ rw_i <= Len(rw_project[rw_m].tables)
    /\ LET st == update_item(rw_m, "table", rw_i, rw_project[rw_m].tables[rw_i],
                             rw_sources[rw_m].tableViews[1][rw_i])
           last == rw_i + 1 > Len(rw_project[rw_m].tables)
       IN  /\ rw_errors' = st.errors
           /\ rw_calls' = st.calls
           /\ rw_conn' = st.conn
           /\ rw_raised' = st.raised
           /\ pc' = IF st.raised.type # "none" THEN "rw_done"
                    ELSE IF last THEN AfterMap(rw_m) ELSE "rw_tables"
           /\ rw_m' = IF st.raised.type = "none" /\ last THEN rw_m + 1 ELSE rw_m
           /\ rw_i' = IF st.raised.type = "none" /\ last THEN 1 ELSE rw_i + 1
    /\ UNCHANGED << rw_project, rw_sources >>
    /\ UNCHANGED << compareVars, diffVars, templateVars, extractVars, stageVars >>

\* after the loop over the maps: `if not len(errors) == 0: raise ...`
ChangeReturn ==
    /\ pc = "rw_end"
    /\ rw_raised' = IF rw_errors # << >>
                    THEN ChangeDataSourcesError(
                           "A number of errors were encountered whilst change layer data sources.",
                           Some(rw_errors))
                    ELSE [type |-> "none"]
    /\ pc' = "rw_done"
    /\ UNCHANGED << rw_project, rw_sources, rw_m, rw_i, rw_errors, rw_calls, rw_conn >>
    /\ UNCHANGED << compareVars, diffVars, templateVars, extractVars, stageVars >>

-----------------------------------------------------------------------------
(* Projects and replacement lists handed to change_data_sources *)

MaxRwMaps == 2      \* maps of the project
MaxRwLayers == 2    \* layers of one map
MaxRwTables == 1    \* tables of one map

SeqsUpTo(n, S) == UNION { [1..k -> S] : k \in 0..n }

\* an item with its replacement; an item that gets no replacement is never
\* touched, so its behaviour is left "ok"
RwLayerItems ==
    { [behaviour |-> b, source |-> Some("conn")] : b \in { "ok", "raises", "broken" } }
        \cup { [behaviour |-> "ok", source |-> None] }

RwTableItems ==
    { [behaviour |-> b, source |-> Some("conn")] : b \in { "ok", "raises" } }
        \cup { [behaviour |-> "ok", source |-> None] }

\* a map together with a replacement entry of matching lengths
RwMaps ==
    { [layers |-> l, tables |-> t] :
        l \in SeqsUpTo(MaxRwLayers, RwLayerItems),
        t \in SeqsUpTo(MaxRwTables, RwTableItems) }

RwJobs == SeqsUpTo(MaxRwMaps, RwMaps)

ProjectOf(job) ==
    [m \in 1..Len(job) |->
        [layers |-> [i \in 1..Len(job[m].layers) |-> job[m].layers[i].behaviour],
         tables |-> [i \in 1..Len(job[m].tables) |-> job[m].tables[i].behaviour]]]

\* the connection properties meant for item i of the list `kind` of map m
Payload(m, kind, i) == [map |-> m, kind |-> kind, item |-> i]

\* the replacement list that create_replacement_data_sources_list yields for the
\* project: one entry per map, each list as long as the map's; the replacement
\* of a layer is its new connection properties, that of a table a dict that
\* holds them under "connectionProperties"
SourcesOf(job) ==
    [m \in 1..Len(job) |->
        [layers |-> Some([i \in 1..Len(job[m].layers) |->
                            IF job[m].layers[i].source = None THEN None
                            ELSE Some(Payload(m, "layer", i))]),
         tableViews |-> Some([i \in 1..Len(job[m].tables) |->
                            IF job[m].tables[i].source = None THEN None
                            ELSE Some([connectionProperties |-> Payload(m, "table", i)])])]]

Front(s) == SubSeq(s, 1, Len(s) - 1)

\* the ways in which one entry of a replacement list can be malformed
MalformedEntries(e) ==
    { [tableViews |-> e.tableViews],                            \* no 'layers' key
      [layers |-> e.layers],                                    \* no 'tableViews' key
      [e EXCEPT !.layers = None],
      [e EXCEPT !.tableViews = None],
      [e EXCEPT !.layers = Some(Append(e.layers[1], Some(Payload(0, "layer", 0))))],
      [e EXCEPT !.tableViews =
          Some(Append(e.tableViews[1],
                      Some([connectionProperties |-> Payload(0, "table", 0)])))] }
    \cup (IF Len(e.layers[1]) > 0
          THEN { [e EXCEPT !.layers = Some(Front(e.layers[1]))] } ELSE {})
    \cup (IF Len(e.tableViews[1]) > 0
          THEN { [e EXCEPT !.tableViews = Some(Front(e.tableViews[1]))] } ELSE {})

\* the replacement lists handed in for a project: the well-formed one, and the
\* lists that differ from it by one malformed entry, one entry too few or one
\* entry too many
SourcesFor(job) ==
    LET good == SourcesOf(job)
    IN  { good }
        \cup UNION { { [good EXCEPT ![m] = e] : e \in MalformedEntries(good[m]) } :
                     m \in 1..Len(good) }
        \cup (IF Len(good) > 0 THEN { Front(good) } ELSE {})
        \cup { Append(good, [layers |-> Some(<< >>), tableViews |-> Some(<< >>)]) }

InitChange ==
    /\ CompareIdle
    /\ DiffIdle
    /\ TemplateIdle
    /\ ExtractIdle
    /\ StageIdle
    /\ \E job \in RwJobs :
          /\ rw_project = ProjectOf(job)
          /\ rw_sources \in SourcesFor(job)
    /\ rw_m = 1 /\ rw_i = 1
    /\ rw_errors = << >> /\ rw_calls = << >>
    /\ rw_conn = [m \in 1..Len(rw_project) |->
                    [layers |-> [i \in 1..Len(rw_project[m].layers) |-> None],
                     tables |-> [i \in 1..Len(rw_project[m].tables) |-> None]]]
    /\ rw_raised = [type |-> "none"]
    /\ pc = IF zip_longest_len(rw_project, rw_sources) > 0 THEN "rw_map" ELSE "rw_end"

NextChange ==
    \/ MapStart
    \/ UpdateLayer
    \/ TablesStart
    \/ UpdateTable
    \/ ChangeReturn

SpecChange == InitChange /\ [][NextChange]_vars

-----------------------------------------------------------------------------
(* create_replacement_data_sources_list(document_data_sources_list,        *)
(*     data_source_templates, raise_exception_no_change)                   *)
(*                                                                         *)
(* A Python value carries its type: a dict is the sequence of its          *)
(* (key, value) pairs in insertion order, a list the sequence of its       *)
(* elements.                                                               *)

py_str(x) == [py |-> "str", s |-> x]
py_bool(x) == [py |-> "bool", b |-> x]
py_int(x) == [py |-> "int", n |-> x]
py_dict(x) == [py |-> "dict", d |-> x]
py_list(x) == [py |-> "list", l |-> x]

\* freeze(d): dicts become frozensets of (key, frozen value), lists become
\* tuples of frozen elements, anything else is returned as it is
RECURSIVE freeze(_)
freeze(v) ==
    CASE v.py = "dict" ->
           [py |-> "frozenset",
            fs |-> { << v.d[n][1], freeze(v.d[n][2]) >> : n \in 1..Len(v.d) }]
      [] v.py = "list" ->
           [py |-> "tuple", tp |-> [n \in 1..Len(v.l) |-> freeze(v.l[n])]]
      [] OTHER -> v

\* whether hash(v) is defined: a dict or a list in a set raises TypeError
hashable(v) == v.py \notin { "dict", "list" }

\* the element of a set that v is equal to: Python's == and hash make True and
\* 1, False and 0 the same element
set_element(v) ==
    IF v.py = "bool" THEN py_int(IF v.b THEN 1 ELSE 0) ELSE v

\* set(template["matchCriteria"].items())
set_of_items(criteria) ==
    { << criteria[n][1], set_element(criteria[n][2]) >> : n \in 1..Len(criteria) }

\* set(freeze(item)) for a layer or table record
set_of_frozen(item) ==
    { << p[1], set_element(p[2]) >> : p \in freeze(py_dict(item)).fs }

\* the list template_sets
template_sets(templates) ==
    [n \in 1..Len(templates) |->
        [matchCriteria |-> set_of_items(templates[n].matchCriteria),
         dataSource |-> templates[n].dataSource]]

\* building template_sets raises TypeError: unhashable type
template_sets_raises(templates) ==
    \E n \in 1..Len(templates) : \E k \in 1..Len(templates[n].matchCriteria) :
        ~ hashable(templates[n].matchCriteria[k][2])

\* the same loop without its break: the last matching template decides
RECURSIVE scan_templates_no_break(_, _, _)
scan_templates_no_break(sets, frozen, n) ==
    IF n > Len(sets) THEN None
    ELSE LET rest == scan_templates_no_break(sets, frozen, n + 1)
         IN  IF sets[n].matchCriteria \subseteq frozen /\ ~ (\E k \in (n + 1)..Len(sets) :
                                                              sets[k].matchCriteria \subseteq frozen)
             THEN sets[n].dataSource
             ELSE rest

\* `for template in template_sets: if ...issubset(...): new_conn = ...; break`
\* from template n on; new_conn is None when the loop ends without a match
RECURSIVE scan_templates(_, _, _)
scan_templates(sets, frozen, n) ==
    IF n > Len(sets) THEN None
    ELSE IF sets[n].matchCriteria \subseteq frozen THEN sets[n].dataSource
    ELSE scan_templates(sets, frozen, n + 1)

RuntimeError(message) == [type |-> "RuntimeError", message |-> message]

\* match_new_data_source without its first statement: a None item goes
\* through the template loop as a record that no template matches
match_new_data_source_unguarded(sets, strict, item) ==
    LET new_conn == IF item = None THEN None
                    ELSE scan_templates(sets, set_of_frozen(item[1]), 1)
    IN  IF new_conn = None /\ strict
        THEN [new_conn |-> new_conn,
              raised |-> RuntimeError("No matching data source was found for layer"),
              value |-> None]
        ELSE [new_conn |-> new_conn, raised |-> [type |-> "none"], value |-> new_conn]

\* match_new_data_source(item): item is None or Some(record)
match_new_data_source(sets, strict, item) ==
    IF item = None
    THEN [new_conn |-> None, raised |-> [type |-> "none"], value |-> None]
    ELSE LET new_conn == scan_templates(sets, set_of_frozen(item[1]), 1)
         IN  IF new_conn = None /\ strict
             THEN [new_conn |-> new_conn,
                   raised |-> RuntimeError("No matching data source was found for layer"),
                   value |-> None]
             ELSE [new_conn |-> new_conn, raised |-> [type |-> "none"],
                   value |-> new_conn]

\* the records in the order the two list comprehensions of the return
\* statement reach them: map by map, layers before tables
TemplateItems(docs) ==
    Concat([m \in 1..Len(docs) |-> docs[m].layers \o docs[m].tableViews])

\* the returned list, from the values of match_new_data_source in that order
TemplateResult(docs, out) ==
    [m \in 1..Len(docs) |->
        LET off == Len(TemplateItems(SubSeq(docs, 1, m - 1)))
            nl == Len(docs[m].layers)
        IN  [layers |-> SubSeq(out, off + 1, off + nl),
             tableViews |-> SubSeq(out, off + nl + 1, off + nl + Len(docs[m].tableViews))]]

BuildTemplateSets ==
    /\ pc = "t_sets"
    /\ IF template_sets_raises(t_templates)
       THEN /\ t_raised' = [type |-> "TypeError"]
            /\ pc' = "t_done"
            /\ UNCHANGED t_sets
       ELSE /\ t_sets' = Some(template_sets(t_templates))
            /\ pc' = IF Len(TemplateItems(t_docs)) > 0 THEN "t_match" ELSE "t_return"
            /\ UNCHANGED t_raised
    /\ UNCHANGED << t_docs, t_templates, t_strict, t_at, t_new_conn, t_out, t_result >>
    /\ UNCHANGED << compareVars, diffVars, changeVars, extractVars, stageVars >>

\* one call of match_new_data_source from the list comprehensions
MatchRecord ==
    /\ pc = "t_match" /\ t_at < Len(TemplateItems(t_docs))
    /\ LET r == match_new_data_source(t_sets[1], t_strict, TemplateItems(t_docs)[t_at + 1])
       IN  /\ t_new_conn' = r.new_conn
           /\ t_raised' = r.raised
           /\ t_out' = IF r.raised.type = "none" THEN Append(t_out, r.value) ELSE t_out
           /\ pc' = IF r.raised.type # "none" THEN "t_done"
                    ELSE IF t_at + 1 < Len(TemplateItems(t_docs)) THEN "t_match"
                    ELSE "t_return"
    /\ t_at' = t_at + 1
    /\ UNCHANGED << t_docs, t_templates, t_strict, t_sets, t_result >>
    /\ UNCHANGED << compareVars, diffVars, changeVars, extractVars, stageVars >>

TemplatesReturn ==
    /\ pc = "t_return"
    /\ t_result' = Some(TemplateResult(t_docs, t_out))
    /\ pc' = "t_done"
    /\ UNCHANGED << t_docs, t_templates, t_strict, t_sets, t_at, t_new_conn, t_out,
                    t_raised >>
    /\ UNCHANGED << compareVars, diffVars, changeVars, extractVars, stageVars >>

-----------------------------------------------------------------------------
(* Records and templates handed to create_replacement_data_sources_list *)

MaxTemplates == 2   \* templates in data_source_templates

Roads ==
    << << "name", py_str("Roads") >>,
       << "workspacePath", py_str("old.gdb") >>,
       << "visible", py_bool(TRUE) >>,
       << "connectionProperties", py_dict(<< << "database", py_str("old.gdb") >> >>) >>,
       << "fields", py_list(<< py_dict(<< << "index", py_int(0) >>,
                                          << "name", py_str("F1") >>,
                                          << "visible", py_bool(TRUE) >> >>) >>) >> >>

Rivers ==
    << << "name", py_str("Rivers") >>,
       << "workspacePath", py_str("old.gdb") >>,
       << "visible", py_bool(FALSE) >> >>

Owners ==
    << << "name", py_str("Owners") >>,
       << "workspacePath", py_str("other.gdb") >> >>

TemplateDocs ==
    { << >>,
      << [layers |-> << Some(Roads) >>, tableViews |-> << >>] >>,
      << [layers |-> << None, Some(Rivers), Some(Roads) >>,
          tableViews |-> << Some(Owners) >>] >>,
      << [layers |-> << Some(Rivers) >>, tableViews |-> << >>],
         [layers |-> << >>, tableViews |-> << Some(Owners), None >>] >> }

MatchCriteria ==
    { << >>,
      << << "workspacePath", py_str("old.gdb") >> >>,
      << << "workspacePath", py_str("old.gdb") >>, << "name", py_str("Roads") >> >>,
      << << "name", py_str("Roads") >>, << "workspacePath", py_str("other.gdb") >> >>,
      << << "visible", py_int(1) >> >>,
      << << "datasetName", py_str("roads") >> >>,
      << << "connectionProperties",
            py_dict(<< << "database", py_str("old.gdb") >> >>) >> >> }

\* the dataSource of a template: None (JSON null) or a payload
DataSources == { None, Some("A"), Some("B") }

Templates == { [matchCriteria |-> c, dataSource |-> d] : c \in MatchCriteria, d \in DataSources }

InitTemplates ==
    /\ CompareIdle
    /\ DiffIdle
    /\ ChangeIdle
    /\ ExtractIdle
    /\ StageIdle
    /\ t_docs \in TemplateDocs
    /\ t_templates \in SeqsUpTo(MaxTemplates, Templates)
    /\ t_strict \in BOOLEAN
    /\ t_sets = None /\ t_at = 0 /\ t_new_conn = None /\ t_out = << >>
    /\ t_result = None /\ t_raised = [type |-> "none"]
    /\ pc = "t_sets"

NextTemplates ==
    \/ BuildTemplateSets
    \/ MatchRecord
    \/ TemplatesReturn

SpecTemplates == InitTemplates /\ [][NextTemplates]_vars

-----------------------------------------------------------------------------
(* list_document_data_sources(project) and _get_layer_details(layer)       *)
(*                                                                         *)
(* A vendor layer object is modelled by what its attributes and calls      *)
(* answer: the two flags, name, the set of attributes supports() reports,  *)
(* serviceProperties, and what arcpy.Describe and the FieldInfo calls do.  *)

\* layer.supports(attribute)
supports(layer, attribute) == attribute \in layer.capabilities

\* str.upper() on the service types of the model
upper(str) == IF str = "sde" THEN "SDE" ELSE str

\* the block `if layer.supports("serviceProperties"):`
service_details(layer, details) ==
    IF ~ supports(layer, "serviceProperties") THEN details
    ELSE LET sp == layer.serviceProperties
             d1 == With(details, "serviceType", sp.ServiceType)
             d2 == IF "UserName" \in DOMAIN sp THEN With(d1, "userName", sp.UserName) ELSE d1
         IN  IF upper(sp.ServiceType) = "SDE"
             THEN With(With(With(d2, "server", sp.Server), "service", sp.Service),
                       "database", sp.Database)
             ELSE d2

\* an attribute copied when the layer supports it
copy_if_supported(layer, details, attribute) ==
    IF supports(layer, attribute) THEN With(details, attribute, layer[attribute]) ELSE details

\* `for index in range(0, field_info.count)` from position n on (index = n - 1):
\* the list built so far and whether getFieldName or getVisible raised
RECURSIVE read_fields(_, _, _)
read_fields(field_info, n, fields) ==
    IF n > Len(field_info) THEN [fields |-> fields, raised |-> FALSE]
    ELSE IF field_info[n].name = None \/ field_info[n].visible = "raises"
    THEN [fields |-> fields, raised |-> TRUE]
    ELSE read_fields(field_info, n + 1,
                     Append(fields, [index |-> n - 1,
                                     name |-> field_info[n].name[1],
                                     visible |-> field_info[n].visible = "VISIBLE"]))

could_not_resolve(layer) ==
    [message |-> "Could not resolve layer fields. The layer datasource may be broken",
     layer |-> layer.name]

\* the try statement around arcpy.Describe: details and what is logged
resolve_fields(layer, details) ==
    IF layer.describe.outcome = "raises"
    THEN [details |-> details, logged |-> << could_not_resolve(layer) >>]
    ELSE IF layer.describe.dataType # "FeatureLayer"
    THEN [details |-> details, logged |-> << >>]
    ELSE LET r == read_fields(layer.describe.fieldInfo, 1, << >>)
         IN  [details |-> With(details, "fields", r.fields),
              logged |-> IF r.raised THEN << could_not_resolve(layer) >> ELSE << >>]

\* a function that answers None for every layer
_get_layer_details_none(mod, layer) == [details |-> None, logged |-> << >>]

\* _get_layer_details(layer) of the copy `mod`: the slot (None or Some(record))
\* and what it logs
_get_layer_details(mod, layer) ==
    IF layer.isGroupLayer /\ ~ layer.isNetworkAnalystLayer
    THEN [details |-> None, logged |-> << >>]
    ELSE LET d0 == [name |-> layer.name, longName |-> layer.longName]
             d1 == copy_if_supported(layer, d0, "datasetName")
             d2 == copy_if_supported(layer, d1, "dataSource")
             d3 == service_details(layer, d2)
             d4 == copy_if_supported(layer, d3, "workspacePath")
             d5 == IF mod = "mapping3"
                   THEN copy_if_supported(layer,
                            copy_if_supported(layer,
                                copy_if_supported(layer, d4, "visible"),
                                "definitionQuery"),
                            "connectionProperties")
                   ELSE d4
             r == resolve_fields(layer, d5)
         IN  [details |-> Some(r.details), logged |-> r.logged]

\* _get_table_details(table)
_get_table_details(table) ==
    [connectionProperties |-> table.connectionProperties, dataSource |-> table.dataSource,
     definitionQuery |-> table.definitionQuery, name |-> table.name]

\* the slots of the layers of one map, and what describing them logs
layer_slots(mod, layers) ==
    [i \in 1..Len(layers) |-> _get_layer_details(mod, layers[i]).details]

layer_logs(mod, layers) ==
    Concat([i \in 1..Len(layers) |-> _get_layer_details(mod, layers[i]).logged])

\* _mp.py: the loop that adds what arcobjects knows of each layer, over the
\* slots at `positions`; info answers additional_layer_info[layerName]
RECURSIVE enrich(_, _, _)
enrich(out, positions, info) ==
    IF positions = << >> THEN [out |-> out, raised |-> FALSE]
    ELSE LET m == positions[1][1]
             i == positions[1][2]
             l == out[m].layers[i]
         IN  IF l = None THEN enrich(out, Tail(positions), info)
             ELSE IF ~ info[l[1].name].has THEN [out |-> out, raised |-> TRUE]
             ELSE IF info[l[1].name].layer_info = None
             THEN enrich(out, Tail(positions), info)
             ELSE LET li == info[l[1].name].layer_info[1]
                      e == With(With(With(With(l[1], "id", li.id),
                                               "hasFixedId", li.hasFixedId),
                                          "visible", li.visible),
                                     "definitionQuery", li.definitionQuery)
                  IN  enrich([out EXCEPT ![m].layers[i] = Some(e)], Tail(positions), info)

SlotsOf(out) == Concat([m \in 1..Len(out) |-> out[m].layers])

SlotPositions(out) ==
    Concat([m \in 1..Len(out) |-> [i \in 1..Len(out[m].layers) |-> << m, i >>]])

\* the list comprehension over the layers of map x_m
ListLayers ==
    /\ pc = "x_layers" /\ x_m <= Len(x_maps)
    /\ x_out' = [x_out EXCEPT ![x_m].layers = layer_slots(x_module, x_maps[x_m].layers)]
    /\ x_logged' = x_logged \o layer_logs(x_module, x_maps[x_m].layers)
    /\ IF x_module = "mapping3"
       THEN pc' = "x_tables" /\ UNCHANGED x_m
       ELSE IF x_m < Len(x_maps)
       THEN pc' = "x_layers" /\ x_m' = x_m + 1
       ELSE pc' = "x_tables" /\ x_m' = 1
    /\ UNCHANGED << x_module, x_maps >>
    /\ UNCHANGED << compareVars, diffVars, changeVars, templateVars, stageVars >>

\* the list comprehension over the tables of map x_m
ListTables ==
    /\ pc = "x_tables" /\ x_m <= Len(x_maps)
    /\ x_out' = [x_out EXCEPT ![x_m].tableViews =
                    [i \in 1..Len(x_maps[x_m].tables) |->
                        _get_table_details(x_maps[x_m].tables[i])]]
    /\ pc' = IF x_m < Len(x_maps)
             THEN (IF x_module = "mapping3" THEN "x_layers" ELSE "x_tables")
             ELSE (IF x_module = "mapping3" THEN "x_return" ELSE "x_enrich")
    /\ x_m' = x_m + 1
    /\ UNCHANGED << x_module, x_maps, x_logged >>
    /\ UNCHANGED << compareVars, diffVars, changeVars, templateVars, stageVars >>

\* what arcobjects answers for a layer name: no entry, None, or the details
LayerInfos ==
    { [has |-> FALSE],
      [has |-> TRUE, layer_info |-> None],
      [has |-> TRUE,
       layer_info |-> Some([id |-> 7, hasFixedId |-> TRUE, visible |-> FALSE,
                            definitionQuery |-> "STATE = 1"])] }

\* _mp.py: the try statement that enriches the slots, and the return
EnrichAndReturn ==
    /\ pc = "x_enrich"
    /\ \/ \* init_arcobjects_context or list_layers raises
          /\ x_logged' = Append(x_logged,
                 [message |-> "Could not read additional layer info using arcobjects"])
          /\ UNCHANGED x_out
       \/ \E info \in [{ l[1].name : l \in { x \in Range(SlotsOf(x_out)) : x # None } }
                          -> LayerInfos] :
             LET r == enrich(x_out, SlotPositions(x_out), info)
             IN  /\ x_out' = r.out
                 /\ x_logged' = IF r.raised
                                THEN Append(x_logged,
                                       [message |->
                                          "Could not read additional layer info using arcobjects"])
                                ELSE x_logged
    /\ pc' = "x_done"
    /\ UNCHANGED << x_module, x_maps, x_m >>
    /\ UNCHANGED << compareVars, diffVars, changeVars, templateVars, stageVars >>

\* _mapping3.py: the list is returned as built
ExtractReturn ==
    /\ pc = "x_return"
    /\ pc' = "x_done"
    /\ UNCHANGED extractVars
    /\ UNCHANGED << compareVars, diffVars, changeVars, templateVars, stageVars >>

-----------------------------------------------------------------------------
(* Documents handed to list_document_data_sources *)

MaxXLayers == 2     \* layers of the map
MaxXFields == 2     \* fields of a feature layer

LayerNames == << "Roads", "Rivers", "Lakes" >>

AllAttributes ==
    { "datasetName", "dataSource", "serviceProperties", "workspacePath", "visible",
      "definitionQuery", "connectionProperties" }

\* what supports() reports together with the serviceProperties of the layer
Capabilities ==
    { [capabilities |-> {}, serviceProperties |-> [ServiceType |-> "Other"]],
      [capabilities |-> { "serviceProperties", "workspacePath" },
       serviceProperties |-> [ServiceType |-> "Other"]],
      [capabilities |-> AllAttributes,
       serviceProperties |-> [ServiceType |-> "sde", UserName |-> "gis", Server |-> "db1",
                              Service |-> "5151", Database |-> "gis"]] }

\* one entry of desc.fieldInfo: what getFieldName and getVisible answer
FieldInfoEntries ==
    { [name |-> Some(<< "F", "1" >>), visible |-> "VISIBLE"],
      [name |-> Some(<< "F", "1" >>), visible |-> "HIDDEN"],
      [name |-> None, visible |-> "VISIBLE"],
      [name |-> Some(<< "F", "1" >>), visible |-> "raises"] }

\* what arcpy.Describe(layer) does
Describes ==
    { [outcome |-> "raises", dataType |-> "", fieldInfo |-> << >>],
      [outcome |-> "ok", dataType |-> "RasterLayer", fieldInfo |-> << >>] }
    \cup { [outcome |-> "ok", dataType |-> "FeatureLayer", fieldInfo |-> fi] :
             fi \in UNION { [1..n -> FieldInfoEntries] : n \in 0..MaxXFields } }

VendorLayer(name, group, na, c, desc) ==
    [name |-> name, longName |-> name, isGroupLayer |-> group,
     isNetworkAnalystLayer |-> na, capabilities |-> c.capabilities,
     serviceProperties |-> c.serviceProperties,
     datasetName |-> "roads_2020", dataSource |-> "C:/data/a.gdb/roads_2020",
     workspacePath |-> "C:/data/a.gdb", visible |-> TRUE, definitionQuery |-> "",
     connectionProperties |-> "conn", describe |-> desc]

\* the layers a map can hold under the name `name`: a plain group layer,
\* network-analyst group layers of every Describe outcome, and leaf layers of
\* every capability and Describe outcome
XLayers(name) ==
    { VendorLayer(name, TRUE, FALSE, c, d) :
        c \in { x \in Capabilities : x.capabilities = {} },
        d \in { x \in Describes : x.dataType = "RasterLayer" } }
    \cup { VendorLayer(name, TRUE, TRUE, c, d) :
             c \in { x \in Capabilities : x.capabilities = {} }, d \in Describes }
    \cup { VendorLayer(name, FALSE, FALSE, c, d) : c \in Capabilities, d \in Describes }

XTable ==
    [connectionProperties |-> "conn", dataSource |-> "C:/data/a.gdb/owners",
     definitionQuery |-> "", name |-> "Owners"]

\* the layer lists of length n: the i-th layer bears the i-th name
RECURSIVE LayerLists(_)
LayerLists(n) ==
    IF n = 0 THEN { << >> }
    ELSE { Append(ls, l) : ls \in LayerLists(n - 1), l \in XLayers(LayerNames[n]) }

\* documents without a map, of one map, and of two maps
XDocuments ==
    { << >> }
    \cup UNION { { << [layers |-> ls, tables |-> << >>] >> : ls \in LayerLists(n) } :
                 n \in 0..MaxXLayers }
    \cup { << [layers |-> << l >>, tables |-> << XTable >>],
              [layers |-> << >>, tables |-> << >>] >> :
             l \in { x \in XLayers("Roads") : x.capabilities = {} } }

InitExtract ==
    /\ CompareIdle
    /\ DiffIdle
    /\ ChangeIdle
    /\ TemplateIdle
    /\ StageIdle
    /\ x_module \in { "mapping3", "mp" }
    /\ x_maps \in XDocuments
    /\ x_m = 1
    /\ x_out = [m \in 1..Len(x_maps) |-> [layers |-> << >>, tableViews |-> << >>]]
    /\ x_logged = << >>
    /\ pc = IF Len(x_maps) > 0 THEN "x_layers"
            ELSE IF x_module = "mapping3" THEN "x_return" ELSE "x_enrich"

NextExtract ==
    \/ ListLayers
    \/ ListTables
    \/ EnrichAndReturn
    \/ ExtractReturn

SpecExtract == InitExtract /\ [][NextExtract]_vars

-----------------------------------------------------------------------------
(* convert_service_draft_to_staged_service(sd_draft, sd_path), one statement *)
(* at a time, and the subprocess it starts.  The parent has no statement     *)
(* between p.start() and p.join(), so the subprocess runs while the parent   *)
(* stands at join.                                                           *)

\* hasattr(sd_draft, "file_path")
hasattr_file_path(draft) == "file_path" \in DOMAIN draft

\* Process.run in the subprocess: the target runs, and when it raises the
\* error is recorded with its traceback for the parent to read as p.exception
Process_run(outcome) ==
    IF outcome.kind = "raises" THEN Some(<< outcome.error, "traceback" >>)
    ELSE None

\* os.path.exists(sd_path)
exists(disk) == disk # "absent"

\* lines 193-196: sd_draft_path is bound
StageBind ==
    /\ pc = "sg_bind"
    /\ sg_draft_path' = Some(IF hasattr_file_path(sg_draft) THEN sg_draft.file_path
                             ELSE sg_draft.path)
    /\ pc' = "sg_process"
    /\ UNCHANGED << sg_draft, sg_disk, sg_proc, sg_args, sg_exception, sg_events,
                    sg_raised >>
    /\ UNCHANGED << compareVars, diffVars, changeVars, templateVars, extractVars >>

\* line 198: p = Process(target=arcpy.StageService_server, args=(...))
StageProcess ==
    /\ pc = "sg_process"
    /\ sg_proc' = "created"
    /\ sg_args' = Some(<< sg_draft_path[1], "sd_path" >>)
    /\ pc' = "sg_remove"
    /\ UNCHANGED << sg_draft, sg_draft_path, sg_disk, sg_exception, sg_events,
                    sg_raised >>
    /\ UNCHANGED << compareVars, diffVars, changeVars, templateVars, extractVars >>

\* lines 200-201: os.remove(sd_path) when something exists there; os.remove
\* raises OSError when sd_path is a directory
StageRemove ==
    /\ pc = "sg_remove"
    /\ IF ~ exists(sg_disk)
       THEN pc' = "sg_start" /\ UNCHANGED << sg_disk, sg_events, sg_raised >>
       ELSE IF sg_disk = "dir"
       THEN /\ sg_raised' = [type |-> "OSError"]
            /\ pc' = "sg_done"
            /\ UNCHANGED << sg_disk, sg_events >>
       ELSE /\ sg_disk' = "absent"
            /\ sg_events' = Append(sg_events, "remove")
            /\ pc' = "sg_start"
            /\ UNCHANGED sg_raised
    /\ UNCHANGED << sg_draft, sg_draft_path, sg_proc, sg_args, sg_exception >>
    /\ UNCHANGED << compareVars, diffVars, changeVars, templateVars, extractVars >>

\* line 203: p.start()
StageStart ==
    /\ pc = "sg_start"
    /\ sg_proc' = "started"
    /\ sg_events' = Append(sg_events, "start")
    /\ pc' = "sg_join"
    /\ UNCHANGED << sg_draft, sg_draft_path, sg_disk, sg_args, sg_exception,
                    sg_raised >>
    /\ UNCHANGED << compareVars, diffVars, changeVars, templateVars, extractVars >>

MaxStageErrors == 2

\* what arcpy.StageService_server does in the subprocess: it writes the
\* service definition, raises, or takes the subprocess down with it
StageOutcomes ==
    { [kind |-> "staged"], [kind |-> "killed"] }
        \cup { [kind |-> "raises", error |-> [type |-> "ExecuteError", code |-> n]] :
                 n \in 1..MaxStageErrors }

\* the subprocess: the target runs to its end and the subprocess exits
ChildRun ==
    /\ sg_proc = "started"
    /\ \E outcome \in StageOutcomes :
          /\ sg_exception' = Process_run(outcome)
          /\ sg_disk' = IF outcome.kind = "staged" THEN "staged" ELSE sg_disk
    /\ sg_proc' = "exited"
    /\ sg_events' = Append(sg_events, "run")
    /\ UNCHANGED << pc, sg_draft, sg_draft_path, sg_args, sg_raised >>
    /\ UNCHANGED << compareVars, diffVars, changeVars, templateVars, extractVars >>

\* a join that does not wait for the subprocess
StageJoinWithoutWait ==
    /\ pc = "sg_join"
    /\ sg_events' = Append(sg_events, "join")
    /\ pc' = "sg_check"
    /\ UNCHANGED << sg_draft, sg_draft_path, sg_disk, sg_proc, sg_args,
                    sg_exception, sg_raised >>
    /\ UNCHANGED << compareVars, diffVars, changeVars, templateVars, extractVars >>

\* line 204: p.join() returns once the subprocess has exited
StageJoin ==
    /\ pc = "sg_join" /\ sg_proc = "exited"
    /\ sg_events' = Append(sg_events, "join")
    /\ pc' = "sg_check"
    /\ UNCHANGED << sg_draft, sg_draft_path, sg_disk, sg_proc, sg_args,
                    sg_exception, sg_raised >>
    /\ UNCHANGED << compareVars, diffVars, changeVars, templateVars, extractVars >>

\* lines 206-208: if p.exception: error, traceback = p.exception; raise error
StageCheck ==
    /\ pc = "sg_check"
    /\ sg_events' = Append(sg_events, "check")
    /\ sg_raised' = IF sg_exception # None THEN sg_exception[1][1]
                    ELSE [type |-> "none"]
    /\ pc' = "sg_done"
    /\ UNCHANGED << sg_draft, sg_draft_path, sg_disk, sg_proc, sg_args,
                    sg_exception >>
    /\ UNCHANGED << compareVars, diffVars, changeVars, templateVars, extractVars >>

\* sd_draft: a path, or a draft object that carries its path in file_path
Drafts ==
    { [path |-> "a.sddraft"], [path |-> "b.sddraft"],
      [file_path |-> "a.sddraft", service |-> "A"],
      [file_path |-> "b.sddraft", service |-> "B"] }

InitStage ==
    /\ CompareIdle
    /\ DiffIdle
    /\ ChangeIdle
    /\ TemplateIdle
    /\ ExtractIdle
    /\ sg_draft \in Drafts
    /\ sg_draft_path = None
    /\ sg_disk \in { "absent", "file", "dir" }
    /\ sg_proc = "none"
    /\ sg_args = None
    /\ sg_exception = None
    /\ sg_events = << >>
    /\ sg_raised = [type |-> "none"]
    /\ pc = "sg_bind"

NextStage ==
    \/ StageBind
    \/ StageProcess
    \/ StageRemove
    \/ StageStart
    \/ ChildRun
    \/ StageJoin
    \/ StageCheck

SpecStage == InitStage /\ [][NextStage]_vars

-----------------------------------------------------------------------------
(* Properties of _layer_diff, checked under SpecDiff *)

\* positions of the entries that the test of property k appended
EntriesFor(res, k) == { i \in 1..Len(res.diff) : res.keys[i] = k }

F1_visible == [index |-> 0, name |-> << "F", "1" >>, visible |-> TRUE]
F1_hidden == [index |-> 0, name |-> << "F", "1" >>, visible |-> FALSE]

BothHaveFields == "fields" \in DOMAIN d_a /\ "fields" \in DOMAIN d_b

\* C7: for every scalar attribute k, _layer_diff(a, b) has an entry for k if and
\* only if k is in both records with different values or in exactly one of them;
\* no entry when k is absent from both or equal in both.
C7_ScalarEntryIff ==
    diff_ab # None =>
        \A k \in ScalarKeys :
            (EntriesFor(diff_ab[1], k) # {})
                <=> \/ /\ k \in DOMAIN d_a /\ k \in DOMAIN d_b
                       /\ d_a[k] # d_b[k]
                    \/ (k \in DOMAIN d_a) # (k \in DOMAIN d_b)

\* C8: when both records have fields, the lists are compared as sets of
\* (index, name, visible): no fields_changed entry when the sets are equal,
\* otherwise exactly one entry of type 405 whose `was` lists exactly the before
\* fields missing from after and whose `now` lists exactly the after fields
\* missing from before; [{0,F1,true}] against [{0,F1,false}] gives
\* was=[{0,F1,true}], now=[{0,F1,false}].
C8_FieldsAsSets ==
    (diff_ab # None /\ BothHaveFields) =>
        LET A == Range(d_a.fields)
            B == Range(d_b.fields)
            at == EntriesFor(diff_ab[1], "fields")
        IN  /\ (A = B) => at = {}
            /\ (A # B) =>
                 /\ Cardinality(at) = 1
                 /\ \A i \in at :
                      LET e == diff_ab[1].diff[i]
                      IN  /\ e.type = layer_fields_changed
                          /\ e.was # None /\ e.now # None
                          /\ Range(e.was[1]) = A \ B
                          /\ Len(e.was[1]) = Cardinality(A \ B)
                          /\ Range(e.now[1]) = B \ A
                          /\ Len(e.now[1]) = Cardinality(B \ A)
            /\ (d_a.fields = << F1_visible >> /\ d_b.fields = << F1_hidden >>) =>
                 \A i \in at :
                    diff_ab[1].diff[i] = [type |-> 405,
                                          was |-> Some(<< F1_visible >>),
                                          now |-> Some(<< F1_hidden >>)]

\* C8 witness: the scenario has run and its entry is in the returned diff
C8_Witness ==
    /\ diff_ab # None
    /\ BothHaveFields
    /\ d_a.fields = << F1_visible >> /\ d_b.fields = << F1_hidden >>
    /\ EntriesFor(diff_ab[1], "fields") # {}

SameFieldSet(x, y) ==
    \/ x = None /\ y = None
    \/ x # None /\ y # None /\ Range(x[1]) = Range(y[1])

\* C9: the field-set diff is symmetric: a fields_changed entry is emitted for
\* (a, b) exactly when one is emitted for (b, a), and then was(a, b) = now(b, a)
\* and now(a, b) = was(b, a) as sets of field records.
C9_FieldsDiffSymmetric ==
    (d_call = "done" /\ BothHaveFields) =>
        LET ab == EntriesFor(diff_ab[1], "fields")
            ba == EntriesFor(diff_ba[1], "fields")
        IN  /\ (ab = {}) <=> (ba = {})
            /\ \A i \in ab : \A j \in ba :
                 /\ SameFieldSet(diff_ab[1].diff[i].was, diff_ba[1].diff[j].now)
                 /\ SameFieldSet(diff_ab[1].diff[i].now, diff_ba[1].diff[j].was)

\* C9 witness: both calls returned, the field sets overlap and each side has a
\* field the other lacks
C9_Witness ==
    /\ d_call = "done"
    /\ BothHaveFields
    /\ Range(d_a.fields) \ Range(d_b.fields) # {}
    /\ Range(d_b.fields) \ Range(d_a.fields) # {}
    /\ Range(d_a.fields) \cap Range(d_b.fields) # {}
    /\ EntriesFor(diff_ab[1], "fields") # {}
    /\ EntriesFor(diff_ba[1], "fields") # {}

-----------------------------------------------------------------------------
(* Properties of the correlation loop, checked under SpecLayers *)

InSeq(x, s) == \E n \in 1..Len(s) : s[n] = x

\* the before-layer at position i was correlated with some after-layer
MatchedA(i) == \E m \in matched : m[1] = i

\* the after-layer at position j was correlated with some before-layer
MatchedB(j) == \E m \in matched : m[2] = j

UniqueNames(pool) ==
    \A m, n \in 1..Len(pool) : m # n => pool[m].name # pool[n].name

\* C2 as stated: for all pools, when the loop has finished every before-layer is
\* in exactly one of {matched, removed} and every after-layer in exactly one of
\* {matched, added}.
C2_PartitionAllPools ==
    pc = "done" =>
        /\ \A i \in 1..Len(a_layers) : MatchedA(i) # InSeq(i, removed)
        /\ \A j \in 1..Len(b_layers) : MatchedB(j) # InSeq(j, added)

\* C2 amended: the same partition, for pools whose layer names are unique
\* within each pool.
C2_PartitionUniqueNames ==
    (pc = "done" /\ UniqueNames(a_layers) /\ UniqueNames(b_layers)) =>
        /\ \A i \in 1..Len(a_layers) : MatchedA(i) # InSeq(i, removed)
        /\ \A j \in 1..Len(b_layers) : MatchedB(j) # InSeq(j, added)

\* C2 witness: a finished run on pools with unique names that has a matched
\* pair, an added layer and a removed layer
C2_Witness ==
    /\ pc = "done" /\ UniqueNames(a_layers) /\ UniqueNames(b_layers)
    /\ matched # {}
    /\ added # << >>
    /\ removed # << >>

\* C3: no before-layer is ever correlated with two different after-layers and no
\* after-layer with two different before-layers, whichever rule matched.
C3_OneToOne ==
    \A m1, m2 \in matched :
        /\ m1[1] = m2[1] => m1[2] = m2[2]
        /\ m1[2] = m2[2] => m1[1] = m2[1]

\* the pair satisfies rule 2 and not rule 1: same id, same name, datasetName
\* not equal
SatisfiesRule2(a, b) == same_id(a, b) /\ same_name(a, b) /\ ~ same_datasource(a, b)

\* C4: for a matched pair that satisfies rule 2 (and so rule 6), the after-layer
\* is in updated and its diff has a datasource_changed (403) entry for
\* datasetName and no id_changed (401) and no name_changed (402) entry.
C4_RulePrecedence ==
    pc = "done" =>
        \A m \in matched :
            SatisfiesRule2(a_layers[m[1]], b_layers[m[2]]) =>
                /\ InSeq(m[2], updated)
                /\ b_diff[m[2]] # None
                /\ LET d == b_diff[m[2]][1]
                       e == _express_diff(a_layers[m[1]], b_layers[m[2]], "datasetName",
                                          layer_datasource_changed)
                   IN  /\ \E n \in 1..Len(d) :
                             /\ d[n].type = layer_datasource_changed
                             /\ d[n].was = e.was /\ d[n].now = e.now
                       /\ \A n \in 1..Len(d) :
                             d[n].type \notin { layer_id_changed, layer_name_changed }

Roads2020 == [id |-> 1, name |-> "Roads", datasetName |-> "roads_2020"]
Roads2021 == [id |-> 1, name |-> "Roads", datasetName |-> "roads_2021"]

\* C5: before = [{id:1, name:"Roads", datasetName:"roads_2020"}] and after =
\* [{id:1, name:"Roads", datasetName:"roads_2021"}] give exactly one updated
\* entry whose diff is exactly [{type: 403, was:"roads_2020", now:"roads_2021"}],
\* with added and removed empty.
C5_RoadsScenario ==
    (pc = "done" /\ a_layers = << Roads2020 >> /\ b_layers = << Roads2021 >>) =>
        /\ updated = << 1 >>
        /\ added = << >>
        /\ removed = << >>
        /\ b_diff[1] # None
        /\ Len(b_diff[1][1]) = 1
        /\ \A n \in 1..Len(b_diff[1][1]) :
              /\ b_diff[1][1][n].type = layer_datasource_changed
              /\ b_diff[1][1][n].was = Some("roads_2020")
              /\ b_diff[1][1][n].now = Some("roads_2021")

\* the before-layer at position i shares neither id nor name with any after-layer
SharesNothingA(i) ==
    \A j \in 1..Len(b_layers) :
        ~ same_id(a_layers[i], b_layers[j]) /\ ~ same_name(a_layers[i], b_layers[j])

\* the after-layer at position j shares neither id nor name with any before-layer
SharesNothingB(j) ==
    \A i \in 1..Len(a_layers) :
        ~ same_id(a_layers[i], b_layers[j]) /\ ~ same_name(a_layers[i], b_layers[j])

\* no match has marked the name of the before-layer at position i resolved
NeverResolvedA(i) == \A m \in matched : a_layers[m[1]].name # a_layers[i].name

AddedRemoved ==
    /\ \A j \in 1..Len(b_layers) :
          /\ ~ MatchedB(j) => InSeq(j, added)
          /\ SharesNothingB(j) => InSeq(j, added)
          /\ MatchedB(j) => ~ InSeq(j, added)
    /\ \A i \in 1..Len(a_layers) :
          /\ NeverResolvedA(i) => InSeq(i, removed)
          /\ SharesNothingA(i) => InSeq(i, removed)
          /\ MatchedA(i) => ~ InSeq(i, removed)

\* C6 as stated: an after-layer that matches no before-layer (in particular one
\* sharing neither id nor name with any before-layer) is in added, a before-layer
\* never marked resolved by a match (in particular one whose id and name occur on no
\* after-layer) is in removed, and a matched layer is in neither list.
C6_AddedRemovedAllPools == pc = "done" => AddedRemoved

\* C6 amended: the same, for pools whose layer names are unique within each pool.
C6_AddedRemovedUniqueNames ==
    (pc = "done" /\ UniqueNames(a_layers) /\ UniqueNames(b_layers)) => AddedRemoved

\* C6 witness: before holds {id:1, name:"A"}, no after-layer has id 1 or name
\* "A"; the before-layer is removed and the after-layer added
C6_Witness ==
    /\ pc = "done"
    /\ a_layers = << [id |-> 1, name |-> "A"] >>
    /\ Len(b_layers) = 1 /\ SharesNothingB(1)
    /\ removed = << 1 >>
    /\ added = << 1 >>

-----------------------------------------------------------------------------
(* Properties of compare, checked under Spec *)

\* C1: for every document snapshot S, compare(S, S) returns layers.added = [],
\* layers.removed = [], layers.updated = [] and dataFrames = [], also when layers
\* of S lack optional attributes and when S has no map.
C1_CompareReflexive ==
    (pc = "done" /\ map_a = map_b) =>
        /\ raised = "none"
        /\ added = << >>
        /\ removed = << >>
        /\ updated = << >>
        /\ dataFrames = << >>

\* C10: compare never raises: an exception of either phase, also one raised
\* while the snapshots are extracted or flattened, is caught and logged and the
\* phase returns its partial or empty result.
C10_NeverRaises == pc = "done" => raised = "none"

-----------------------------------------------------------------------------
(* Properties of the two phases of compare, checked under Spec *)

\* all layer records of all maps of a document, in document order, group-layer
\* placeholders left out
AllLayerRecords(doc) == Concat([m \in 1..Len(doc) |-> not_none(doc[m].layers)])

\* compare_layers has left its flattening step (or was aborted in it)
PoolsBuilt == pc \in { "match", "removed", "finally", "done" }

\* C11: the candidate pool of each snapshot is exactly the sequence of all
\* non-None layer records of all its maps, in document order; layers of later
\* maps take part and None placeholders are left out without aborting the
\* comparison.
C11_PoolIsAllLayers ==
    PoolsBuilt =>
        /\ bound
        /\ Len(a_layers) = Len(AllLayerRecords(map_a))
        /\ Len(b_layers) = Len(AllLayerRecords(map_b))
        /\ pool_kind = "dict" \/ (a_layers = << >> /\ b_layers = << >>)
        /\ pool_kind = "dict" =>
              /\ a_layers = AllLayerRecords(map_a)
              /\ b_layers = AllLayerRecords(map_b)

\* compare_data_frames has returned
FramesDone == pc \notin { "frames_count", "frames_loop" }

\* positions of the entries of dataFrames with the given change code
FrameEntries(code) == { n \in 1..Len(dataFrames) : dataFrames[n].type = code }

\* C12: compare_data_frames emits {type: map_count_changed, was: number of
\* before maps, now: number of after maps} whenever the map counts differ or the
\* map count is zero, and no such entry when the counts are equal and non-zero.
C12_MapCountEntry ==
    FramesDone =>
        IF Len(map_a) # Len(map_b) \/ Len(map_a) = 0 \/ Len(map_b) = 0
        THEN /\ Cardinality(FrameEntries(map_count_changed)) = 1
             /\ \A n \in FrameEntries(map_count_changed) :
                   dataFrames[n].was = Len(map_a) /\ dataFrames[n].now = Len(map_b)
        ELSE FrameEntries(map_count_changed) = {}

\* indexes present in both documents' map lists
SharedIndexes ==
    1..(IF Len(map_a) < Len(map_b) THEN Len(map_a) ELSE Len(map_b))

\* the shared indexes at which the spatial references differ in attribute k
CodeDiffers == { i \in SharedIndexes : map_a[i].sr.factoryCode # map_b[i].sr.factoryCode }
TypeDiffers == { i \in SharedIndexes : map_a[i].sr.type # map_b[i].sr.type }
NameDiffers == { i \in SharedIndexes : map_a[i].sr.name # map_b[i].sr.name }

\* C13: for every index present in both map lists, whichever list is longer,
\* the result has a cs_code_changed entry iff the factoryCode differs there, a
\* cs_type_changed entry iff the type differs and a cs_name_changed entry iff the
\* name differs, each with the before value as was and the after value as now;
\* maps beyond the shorter list contribute no pairwise entry.
C13_PairwiseEntries ==
    FramesDone =>
        /\ Cardinality(FrameEntries(data_frame_cs_code_changed)) = Cardinality(CodeDiffers)
        /\ Cardinality(FrameEntries(data_frame_cs_type_changed)) = Cardinality(TypeDiffers)
        /\ Cardinality(FrameEntries(data_frame_cs_name_changed)) = Cardinality(NameDiffers)
        /\ \A i \in CodeDiffers : \E n \in FrameEntries(data_frame_cs_code_changed) :
              /\ dataFrames[n].was = map_a[i].sr.factoryCode
              /\ dataFrames[n].now = map_b[i].sr.factoryCode
        /\ \A i \in TypeDiffers : \E n \in FrameEntries(data_frame_cs_type_changed) :
              /\ dataFrames[n].was = map_a[i].sr.type
              /\ dataFrames[n].now = map_b[i].sr.type
        /\ \A i \in NameDiffers : \E n \in FrameEntries(data_frame_cs_name_changed) :
              /\ dataFrames[n].was = map_a[i].sr.name
              /\ dataFrames[n].now = map_b[i].sr.name

-----------------------------------------------------------------------------
(* Properties of change_data_sources, checked under SpecChange *)

\* maps that both the project and the replacement list have
RwShared ==
    1..(IF Len(rw_project) < Len(rw_sources) THEN Len(rw_project) ELSE Len(rw_sources))

HasBothKeys(m) == { "layers", "tableViews" } \subseteq DOMAIN rw_sources[m]

\* for map m the replacement list for layers (for tables) is a list of another
\* length than the map's layer (table) list
LayersLengthMismatch(m) ==
    /\ HasBothKeys(m) /\ rw_sources[m].layers # None
    /\ Len(rw_sources[m].layers[1]) # Len(rw_project[m].layers)

TablesLengthMismatch(m) ==
    /\ HasBothKeys(m) /\ rw_sources[m].tableViews # None
    /\ Len(rw_sources[m].tableViews[1]) # Len(rw_project[m].tables)

\* the fatal error for a list-length mismatch left change_data_sources
LengthMismatchRaised ==
    /\ rw_raised.type = "ChangeDataSourcesError"
    /\ rw_raised.errors = None
    /\ rw_raised.message \in
          { "Number of layers does not match number of data sources.",
            "Number of data tables does not match number of data table data sources." }

\* C14: when for some map the replacement list for layers (or tables) has
\* another length than the map's layer (or table) list, the fatal
\* ChangeDataSourcesError is raised and no updateConnectionProperties call has
\* happened earlier in the call, neither on an earlier map nor on the layers of
\* the map whose table list is mismatched.
C14_FatalBeforeAnyMutation ==
    (/\ pc = "rw_done"
     /\ \E m \in RwShared : LayersLengthMismatch(m) \/ TablesLengthMismatch(m))
        => (LengthMismatchRaised /\ rw_calls = << >>)

\* the replacement list has one entry per map, each with both keys and with
\* lists as long as the map's
RwWellFormed ==
    /\ Len(rw_sources) = Len(rw_project)
    /\ \A m \in 1..Len(rw_project) :
          /\ HasBothKeys(m)
          /\ rw_sources[m].layers # None /\ rw_sources[m].tableViews # None
          /\ ~ LayersLengthMismatch(m) /\ ~ TablesLengthMismatch(m)

\* the items of map m, list `kind`, that have a non-null replacement at their
\* own position
Replaced(m, kind) ==
    IF ~ HasBothKeys(m) THEN {}
    ELSE LET items == IF kind = "layer" THEN rw_project[m].layers ELSE rw_project[m].tables
             srcs == IF kind = "layer" THEN rw_sources[m].layers
                     ELSE rw_sources[m].tableViews
         IN  IF srcs = None THEN {}
             ELSE { i \in 1..Len(items) : i <= Len(srcs[1]) /\ srcs[1][i] # None }

\* the behaviour of the item a call or an error entry names
ItemAt(at) ==
    IF at[2] = "layer" THEN rw_project[at[1]].layers[at[3]]
    ELSE rw_project[at[1]].tables[at[3]]

\* position in the walk: maps in order, layers before tables, lists in order
WalkBefore(x, y) ==
    \/ x[1] < y[1]
    \/ x[1] = y[1] /\ x[2] = "layer" /\ y[2] = "table"
    \/ x[1] = y[1] /\ x[2] = y[2] /\ x[3] < y[3]

\* every item with a non-null replacement was attempted, once, in walk order
AllReplacedAttempted ==
    /\ \A m \in RwShared : \A kind \in { "layer", "table" } : \A i \in Replaced(m, kind) :
          \E n \in 1..Len(rw_calls) : rw_calls[n] = << m, kind, i >>
    /\ \A n1, n2 \in 1..Len(rw_calls) : n1 < n2 => WalkBefore(rw_calls[n1], rw_calls[n2])

\* each attempted item that failed has exactly one entry in errors, in the order
\* of the attempts, and nothing else has one
OneErrorPerFailure ==
    LET failed == SelectSeq(rw_calls, LAMBDA at : ItemAt(at) # "ok")
    IN  /\ Len(rw_errors) = Len(failed)
        /\ \A n \in 1..Len(failed) : rw_errors[n].at = failed[n]

AggregateRaised ==
    /\ rw_raised.type = "ChangeDataSourcesError"
    /\ rw_raised.errors = Some(rw_errors)

\* C15: an item whose update raises or which is broken after the update does not
\* stop the walk: every remaining item with a non-null replacement is still
\* attempted, each failed item has exactly one entry in errors in processing
\* order, and one ChangeDataSourcesError carrying the whole list is raised after
\* the last map iff the list is not empty.
C15_FailuresAggregated ==
    pc = "rw_done" =>
        /\ OneErrorPerFailure
        /\ rw_errors # << >> => (AllReplacedAttempted /\ AggregateRaised)
        /\ AggregateRaised => rw_errors # << >>

\* the same on replacement lists that are well-formed for the project, where
\* no fatal error ends the walk
FailuresAggregatedWhenWellFormed ==
    (pc = "rw_done" /\ RwWellFormed) =>
        /\ OneErrorPerFailure
        /\ AllReplacedAttempted
        /\ IF rw_errors # << >> THEN AggregateRaised ELSE rw_raised = [type |-> "none"]

-----------------------------------------------------------------------------
(* Properties of create_replacement_data_sources_list, checked under       *)
(* SpecTemplates                                                           *)

\* equality of two attribute values as Python's == decides it
py_equal(a, b) ==
    IF a.py \in { "bool", "int" } /\ b.py \in { "bool", "int" }
    THEN (IF a.py = "bool" THEN (IF a.b THEN 1 ELSE 0) ELSE a.n)
           = (IF b.py = "bool" THEN (IF b.b THEN 1 ELSE 0) ELSE b.n)
    ELSE a = b

\* the criterion pair c is one of the top-level attribute-value pairs of item
CriterionHolds(item, c) ==
    \E n \in 1..Len(item) : item[n][1] = c[1] /\ py_equal(item[n][2], c[2])

\* every criterion pair of template t is contained in the record
TemplateMatches(t, item) ==
    \A k \in 1..Len(t.matchCriteria) : CriterionHolds(item, t.matchCriteria[k])

Matching(item) == { n \in 1..Len(t_templates) : TemplateMatches(t_templates[n], item) }

\* the dataSource of the first matching template in declaration order, None
\* when no template matches
FirstMatchDataSource(item) ==
    IF Matching(item) = {} THEN None
    ELSE t_templates[CHOOSE n \in Matching(item) : \A k \in Matching(item) : n <= k].dataSource

\* C16: each non-null layer/table record is given the dataSource of the first
\* template, in declaration order, whose criterion pairs are all among the
\* record's top-level attribute-value pairs: that is the value of new_conn when
\* the template loop ends, the value match_new_data_source returns and the
\* value at the record's position in the returned list. A later matching
\* template never overrides it and a template with a pair missing from or
\* different in the record is passed over.
C16_FirstTemplateWins ==
    /\ (t_at > 0 /\ TemplateItems(t_docs)[t_at] # None)
          => t_new_conn = FirstMatchDataSource(TemplateItems(t_docs)[t_at][1])
    /\ \A n \in 1..Len(t_out) :
          TemplateItems(t_docs)[n] # None
             => t_out[n] = FirstMatchDataSource(TemplateItems(t_docs)[n][1])
    /\ t_result # None =>
          /\ Len(t_result[1]) = Len(t_docs)
          /\ \A m \in 1..Len(t_docs) :
                /\ Len(t_result[1][m].layers) = Len(t_docs[m].layers)
                /\ Len(t_result[1][m].tableViews) = Len(t_docs[m].tableViews)
                /\ \A i \in 1..Len(t_docs[m].layers) :
                      t_docs[m].layers[i] # None
                         => t_result[1][m].layers[i]
                              = FirstMatchDataSource(t_docs[m].layers[i][1])
                /\ \A i \in 1..Len(t_docs[m].tableViews) :
                      t_docs[m].tableViews[i] # None
                         => t_result[1][m].tableViews[i]
                              = FirstMatchDataSource(t_docs[m].tableViews[i][1])

\* the call returned a list in which a record matched by two templates with
\* different payloads, the second after a template that does not match or right
\* after the first, holds the payload of the earlier one
C16_Witness ==
    /\ t_result # None
    /\ Len(t_templates) = 2
    /\ \E m \in 1..Len(t_docs) : \E i \in 1..Len(t_docs[m].layers) :
          /\ t_docs[m].layers[i] # None
          /\ Matching(t_docs[m].layers[i][1]) = { 1, 2 }
          /\ t_templates[1].dataSource # None
          /\ t_templates[2].dataSource # None
          /\ t_templates[1].dataSource # t_templates[2].dataSource
          /\ t_result[1][m].layers[i] = t_templates[1].dataSource

\* the error raised for a record without a replacement left the call
NoMatchRaised == t_raised = RuntimeError("No matching data source was found for layer")

\* C17: for the record match_new_data_source was last called on: when no
\* template matches it, the call yields None for it if raise_exception_no_change
\* is off and fails with the no-match error if it is on; the call never fails
\* with that error for a record that some template matches.
C17_NoMatchOutcome ==
    (t_at > 0 /\ TemplateItems(t_docs)[t_at] # None) =>
        LET item == TemplateItems(t_docs)[t_at][1]
        IN  /\ (Matching(item) = {} /\ ~ t_strict)
                  => (t_raised.type = "none" /\ Len(t_out) = t_at /\ t_out[t_at] = None)
            /\ (Matching(item) = {} /\ t_strict) => NoMatchRaised
            /\ Matching(item) # {} => ~ NoMatchRaised

-----------------------------------------------------------------------------
(* Properties of list_document_data_sources, checked under SpecExtract *)

PlainGroup(layer) == layer.isGroupLayer /\ ~ layer.isNetworkAnalystLayer

\* C18: when the extractor has returned, the layer list of every map has one
\* slot per layer of the document, in the document's order; the slot of a group
\* layer that is not a network-analyst layer holds None, and the slot of every
\* other layer, network-analyst group layers included, holds a record with the
\* layer's name.
C18_GroupSlotsAreNone ==
    pc = "x_done" =>
        /\ Len(x_out) = Len(x_maps)
        /\ \A m \in 1..Len(x_maps) :
              /\ Len(x_out[m].layers) = Len(x_maps[m].layers)
              /\ \A i \in 1..Len(x_maps[m].layers) :
                    IF PlainGroup(x_maps[m].layers[i])
                    THEN x_out[m].layers[i] = None
                    ELSE /\ x_out[m].layers[i] # None
                         /\ "name" \in DOMAIN x_out[m].layers[i][1]
                         /\ x_out[m].layers[i][1].name = x_maps[m].layers[i].name

\* a map whose first layer is a plain group layer and whose second is a
\* network-analyst group layer: a None slot followed by that layer's record
C18_Witness ==
    /\ pc = "x_done"
    /\ Len(x_maps) = 1 /\ Len(x_maps[1].layers) = 2
    /\ PlainGroup(x_maps[1].layers[1])
    /\ x_maps[1].layers[2].isGroupLayer /\ x_maps[1].layers[2].isNetworkAnalystLayer
    /\ x_out[1].layers[1] = None
    /\ x_out[1].layers[2] # None
    /\ x_out[1].layers[2][1].name = "Rivers"

\* resolving the field metadata of the layer fails: Describe raises, or the
\* layer is a feature layer and getFieldName or getVisible raises for a field
FieldsFail(layer) ==
    \/ layer.describe.outcome = "raises"
    \/ /\ layer.describe.outcome = "ok" /\ layer.describe.dataType = "FeatureLayer"
       /\ \E n \in 1..Len(layer.describe.fieldInfo) :
             \/ layer.describe.fieldInfo[n].name = None
             \/ layer.describe.fieldInfo[n].visible = "raises"

\* C19: when resolving the field metadata of a layer fails at any point, the
\* extractor still returns, the layer's record is there with its name, and the
\* record has no fields attribute at all.
C19_NoFieldsOnFailure ==
    pc = "x_done" =>
        \A m \in 1..Len(x_maps) : \A i \in 1..Len(x_maps[m].layers) :
            (~ PlainGroup(x_maps[m].layers[i]) /\ FieldsFail(x_maps[m].layers[i]))
               => /\ x_out[m].layers[i] # None
                  /\ "name" \in DOMAIN x_out[m].layers[i][1]
                  /\ "fields" \notin DOMAIN x_out[m].layers[i][1]

\* the same for the failure of Describe itself
NoFieldsWhenDescribeRaises ==
    pc = "x_done" =>
        \A m \in 1..Len(x_maps) : \A i \in 1..Len(x_maps[m].layers) :
            (~ PlainGroup(x_maps[m].layers[i])
                /\ x_maps[m].layers[i].describe.outcome = "raises")
               => /\ x_out[m].layers[i] # None
                  /\ "fields" \notin DOMAIN x_out[m].layers[i][1]

-----------------------------------------------------------------------------
(* The ignore flag of compare_layers, checked under SpecLayers *)

Occurrences(s, x) == Cardinality({ n \in 1..Len(s) : s[n] = x })

\* the field-level diff of the pair (a_layers[i], b_layers[j]) is empty
EmptyDiff(i, j) == \A d \in _layer_diff(a_layers[i], b_layers[j]) : Len(d) = 0

\* the matched pair m = << i, j, rule >> puts its after-layer in updated
PutsInUpdated(m) == m[3] # 1 \/ ~ EmptyDiff(m[1], m[2])

\* C20: at every point of the correlation loop, an after-layer is in updated
\* once for each matched pair it belongs to whose rule is not rule 1 or whose
\* field-level diff is not empty, and not otherwise; a pair matched by rule 1
\* with an empty diff puts neither of its layers in added or removed and adds
\* no entry to updated.
C20_IgnoreRule ==
    /\ \A j \in 1..Len(b_layers) :
          Occurrences(updated, j)
             = Cardinality({ m \in matched : m[2] = j /\ PutsInUpdated(m) })
    /\ \A m \in matched :
          ~ PutsInUpdated(m) => (~ InSeq(m[2], added) /\ ~ InSeq(m[1], removed))

\* the loop has ended with one pair matched by rule 1 with an empty diff, which
\* is in none of the three lists, and another pair matched by a later rule,
\* whose after-layer is in updated
C20_Witness ==
    /\ pc = "done"
    /\ \E m \in matched :
          /\ m[3] = 1 /\ EmptyDiff(m[1], m[2])
          /\ ~ InSeq(m[2], updated) /\ ~ InSeq(m[2], added) /\ ~ InSeq(m[1], removed)
    /\ \E m \in matched : m[3] # 1 /\ InSeq(m[2], updated)

-----------------------------------------------------------------------------
(* Tie-breaks of compare_layers, checked under SpecLayers *)

\* resolved_a and resolved_b when the scan for b_layers[j] starts: the names of
\* the before-layers matched to an earlier after-layer, and the names of all
\* earlier after-layers (each is matched, added or was resolved already)
ResolvedABefore(j) == { a_layers[m[1]].name : m \in { x \in matched : x[2] < j } }

ResolvedBBefore(j) == { b_layers[k].name : k \in 1..(j - 1) }

\* the rules the pair (a_layers[i], b_layers[j]) satisfies at that point
RulesSatisfied(i, j) ==
    { t \in 1..NumTests :
        matcher(t, a_layers[i], b_layers[j], ResolvedABefore(j), ResolvedBBefore(j)) }

\* the unclaimed before-layers that satisfy some rule with b_layers[j]
Candidates(j) == { i \in 1..Len(a_layers) : RulesSatisfied(i, j) # {} }

Least(S) == CHOOSE x \in S : \A y \in S : x <= y

\* C21: when the loop has ended and several unclaimed before-layers each
\* satisfied some rule with after-layer j, j is correlated with the first of
\* them in before-list order and with no other, by the first rule in rule
\* order that the pair satisfies, and the diff attached to j is the diff
\* against that first before-layer.
C21_FirstCandidateWins ==
    pc = "done" =>
        \A j \in 1..Len(b_layers) :
            Cardinality(Candidates(j)) >= 2 =>
                LET first == Least(Candidates(j))
                IN  /\ { m \in matched : m[2] = j }
                          = { << first, j, Least(RulesSatisfied(first, j)) >> }
                    /\ b_diff[j] # None
                    /\ b_diff[j][1] \in _layer_diff(a_layers[first], b_layers[j])

\* the same for an after-layer with a single candidate
SingleCandidateWins ==
    pc = "done" =>
        \A j \in 1..Len(b_layers) :
            Cardinality(Candidates(j)) = 1 =>
                LET first == Least(Candidates(j))
                IN  /\ { m \in matched : m[2] = j }
                          = { << first, j, Least(RulesSatisfied(first, j)) >> }
                    /\ b_diff[j] # None
                    /\ b_diff[j][1] \in _layer_diff(a_layers[first], b_layers[j])

-----------------------------------------------------------------------------
(* Absent keys in the matching rules, checked under SpecLayers *)

Lacks(layer, k) == k \notin DOMAIN layer

\* C22: equality on a key is false when the key is absent from either record,
\* so at every point of the correlation loop a matched pair in which a layer
\* lacks id was matched by rule 5 or 6, and a matched pair in which a layer
\* lacks datasetName was matched by rule 2, 4 or 6.
C22_AbsentKeyNeverEqual ==
    /\ \A i \in 1..Len(a_layers) : \A j \in 1..Len(b_layers) :
          \A k \in { "id", "name", "datasetName" } :
             (Lacks(a_layers[i], k) \/ Lacks(b_layers[j], k))
                => ~ eq(a_layers[i], b_layers[j], k)
    /\ \A m \in matched :
          /\ (Lacks(a_layers[m[1]], "id") \/ Lacks(b_layers[m[2]], "id"))
                => m[3] \in { 5, 6 }
          /\ (Lacks(a_layers[m[1]], "datasetName") \/ Lacks(b_layers[m[2]], "datasetName"))
                => m[3] \in { 2, 4, 6 }

\* the loop has ended with two layers that both lack id and datasetName
\* correlated by rule 6, and two layers that both lack only datasetName
\* correlated by rule 2
C22_Witness ==
    /\ pc = "done"
    /\ \E m \in matched :
          /\ m[3] = 6
          /\ Lacks(a_layers[m[1]], "id") /\ Lacks(b_layers[m[2]], "id")
          /\ Lacks(a_layers[m[1]], "datasetName") /\ Lacks(b_layers[m[2]], "datasetName")
    /\ \E m \in matched :
          /\ m[3] = 2
          /\ ~ Lacks(a_layers[m[1]], "id") /\ ~ Lacks(b_layers[m[2]], "id")
          /\ Lacks(a_layers[m[1]], "datasetName") /\ Lacks(b_layers[m[2]], "datasetName")

-----------------------------------------------------------------------------
(* Frame of change_data_sources, checked under SpecChange *)

\* the replacement at the position of item i of the list `kind` of map m: None
\* when it is null or when the replacement lists do not reach that position
ReplacementAt(m, kind, i) ==
    IF m > Len(rw_sources) \/ ~ HasBothKeys(m) THEN None
    ELSE LET srcs == IF kind = "layer" THEN rw_sources[m].layers
                     ELSE rw_sources[m].tableViews
         IN  IF srcs = None THEN None
             ELSE IF i > Len(srcs[1]) THEN None
             ELSE srcs[1][i]

\* the new properties the replacement r stands for
PropsOf(kind, r) == IF kind = "layer" THEN r[1] ELSE r[1].connectionProperties

ItemsOf(m, kind) == IF kind = "layer" THEN rw_project[m].layers ELSE rw_project[m].tables

ConnOf(m, kind, i) == IF kind = "layer" THEN rw_conn[m].layers[i] ELSE rw_conn[m].tables[i]

\* C23: at every point of the call, updateConnectionProperties has been called
\* on an item at most once and only with the replacement at the item's own
\* position of its own map; an item whose positional replacement is null has
\* never been passed to updateConnectionProperties, whatever the other items
\* did.
C23_OnlyOwnReplacement ==
    /\ \A m \in 1..Len(rw_project) : \A kind \in { "layer", "table" } :
          \A i \in 1..Len(ItemsOf(m, kind)) :
             IF ReplacementAt(m, kind, i) = None
             THEN /\ ConnOf(m, kind, i) = None
                  /\ ~ InSeq(<< m, kind, i >>, rw_calls)
             ELSE /\ ConnOf(m, kind, i) \in
                        { None, Some(PropsOf(kind, ReplacementAt(m, kind, i))) }
                  /\ ConnOf(m, kind, i) # None <=> InSeq(<< m, kind, i >>, rw_calls)
    /\ \A n1, n2 \in 1..Len(rw_calls) : n1 # n2 => rw_calls[n1] # rw_calls[n2]

\* the call has ended on a map of two layers and a table: the first layer, with
\* a null replacement, was never touched; the second, whose update fails, and
\* the table were given their own replacements
C23_Witness ==
    /\ pc = "rw_done"
    /\ Len(rw_project) = 1
    /\ Len(rw_project[1].layers) = 2 /\ Len(rw_project[1].tables) = 1
    /\ ReplacementAt(1, "layer", 1) = None
    /\ rw_conn[1].layers[1] = None
    /\ rw_project[1].layers[2] # "ok"
    /\ rw_conn[1].layers[2] = Some(Payload(1, "layer", 2))
    /\ rw_conn[1].tables[1] = Some(Payload(1, "table", 1))
    /\ rw_calls = << << 1, "layer", 2 >>, << 1, "table", 1 >> >>

-----------------------------------------------------------------------------
(* Malformed replacement lists, checked under SpecChange *)

\* the fatal form of the error: no list of collected failures
FatalRaised == rw_raised.type = "ChangeDataSourcesError" /\ rw_raised.errors = None

\* C24: when the call has ended on a replacement list in which a map's entry
\* lacks the layers or the tableViews key, or which has fewer or more entries
\* than the document has maps, it has ended with the fatal
\* ChangeDataSourcesError.
C24_MalformedIsFatal ==
    (/\ pc = "rw_done"
     /\ \/ Len(rw_sources) # Len(rw_project)
        \/ \E m \in RwShared : ~ HasBothKeys(m))
        => FatalRaised

\* the same for a missing key alone
MissingKeyIsFatal ==
    (/\ pc = "rw_done"
     /\ Len(rw_sources) = Len(rw_project)
     /\ \E m \in RwShared : ~ HasBothKeys(m))
        => /\ FatalRaised
           /\ rw_raised.message
                = "Data sources dictionary does not contain both layers and tableViews keys"

-----------------------------------------------------------------------------
(* The subprocess of convert_service_draft_to_staged_service, checked under *)
(* SpecStage                                                                 *)

\* the call has returned or raised
StageEnded == pc = "sg_done"

\* s is an initial part of t
IsPrefix(s, t) == Len(s) <= Len(t) /\ \A n \in 1..Len(s) : s[n] = t[n]

\* what the call and its subprocess did after the output path was cleared
AfterRemoval == SelectSeq(sg_events, LAMBDA e : e # "remove")

\* the call ended the way the subprocess did: it raised the recorded error, or
\* returned when none was recorded
RaisedIffRecorded ==
    /\ (sg_raised.type # "none") <=> (sg_exception # None)
    /\ sg_exception # None => sg_raised = sg_exception[1][1]

\* C25: when the call has returned or raised, exactly one subprocess was
\* started and it was joined after it ran, any removal of the output file came
\* before the start, the exception check came after the join, and the call
\* raised the error the subprocess recorded exactly when it recorded one.
C25_OneSubprocessAlwaysJoined ==
    StageEnded =>
        /\ Occurrences(sg_events, "start") = 1
        /\ AfterRemoval = << "start", "run", "join", "check" >>
        /\ InSeq("remove", sg_events) => sg_events[1] = "remove"
        /\ RaisedIffRecorded

\* C25 (amended): at most one subprocess is started, and only while nothing is
\* left at the output path; the subprocess runs before the join and the join
\* comes before the exception check; a call that ends has either failed to
\* remove what was at the output path, with OSError and no subprocess started,
\* or has started one subprocess for the staging step, joined it, and raised
\* its recorded error exactly when it recorded one.
C25_JoinedWheneverStarted ==
    /\ Occurrences(sg_events, "start") <= 1
    /\ IsPrefix(AfterRemoval, << "start", "run", "join", "check" >>)
    /\ InSeq("remove", sg_events) => sg_events[1] = "remove"
    /\ sg_proc = "started" => sg_disk = "absent"
    /\ StageEnded =>
          \/ /\ sg_raised = [type |-> "OSError"]
             /\ sg_disk = "dir"
             /\ sg_events = << >>
             /\ sg_proc = "created"
          \/ /\ AfterRemoval = << "start", "run", "join", "check" >>
             /\ sg_proc = "exited"
             /\ sg_args = Some(<< sg_draft_path[1], "sd_path" >>)
             /\ RaisedIffRecorded

\* a file at the output path was removed, the subprocess recorded an error and
\* the call raised it after the join
C25_Witness ==
    /\ StageEnded
    /\ sg_events = << "remove", "start", "run", "join", "check" >>
    /\ sg_exception # None
    /\ sg_raised.type = "ExecuteError"

\* the subprocess died without recording anything and the call returned
StageReturnsAfterKill ==
    /\ StageEnded
    /\ sg_exception = None /\ sg_raised.type = "none" /\ sg_disk = "absent"

-----------------------------------------------------------------------------
(* The result lists of compare_layers, checked under SpecLayers *)

\* the loop has ended on pools with unique names
DoneOnUniqueNames == pc = "done" /\ UniqueNames(a_layers) /\ UniqueNames(b_layers)

\* no after-layer is appended to updated twice
UpdatedOnce == \A j \in 1..Len(b_layers) : Occurrences(updated, j) <= 1

\* no layer is in two of the lists added, updated and removed: an after-layer
\* is not both added and updated, and a removed before-layer is not one that an
\* after-layer was correlated with
ListsDisjoint ==
    /\ Range(added) \cap Range(updated) = { }
    /\ \A i \in Range(removed) : ~ MatchedA(i)
    /\ \A j \in Range(added) : \A m \in matched : m[2] # j

\* an updated entry with an empty diff was matched by a rule other than rule 1
EmptyDiffOnlyByLaterRule ==
    \A j \in Range(updated) :
        /\ b_diff[j] # None
        /\ Len(b_diff[j][1]) = 0 => \E m \in matched : m[2] = j /\ m[3] # 1

\* an after-layer that was matched is matched against one before-layer only
NoSecondMatch == \A m1, m2 \in matched : m1[2] = m2[2] => m1 = m2

\* C26: when the loop has ended on pools with unique names, every after-layer
\* is at most once in updated, added, updated and removed are pairwise
\* disjoint, an updated entry's diff is empty only if a rule other than rule 1
\* matched it, and no after-layer already reported is matched again against
\* another before-layer.
C26_ResultListsWellFormed ==
    DoneOnUniqueNames =>
        /\ UpdatedOnce
        /\ ListsDisjoint
        /\ EmptyDiffOnlyByLaterRule
        /\ NoSecondMatch

\* the parts of C26 that hold
C26_DisjointAndDiffs ==
    DoneOnUniqueNames => ListsDisjoint /\ EmptyDiffOnlyByLaterRule

-----------------------------------------------------------------------------
(* compare_layers as a function of the two pools, to compare its result on  *)
(* reordered pools; checked under SpecLayers                                 *)

\* the loop over the tests for the pair (A[i], B[j]), from test t on, as
\* run_tests_on_pair runs it for the pools of the state
RECURSIVE tests_on_pair(_, _, _, _, _, _, _)
tests_on_pair(A, B, st, i, j, t, d) ==
    IF t > NumTests THEN st
    ELSE IF matcher(t, A[i], B[j], st.resolved_a, st.resolved_b)
         THEN LET st1 == [st EXCEPT !.match = Some(j),
                                    !.resolved_a = @ \cup { A[i].name },
                                    !.resolved_b = @ \cup { B[j].name }]
              IN  IF ~ ignore(t) \/ Len(d) > 0
                  THEN [st1 EXCEPT !.updated = Append(@, j)]
                  ELSE tests_on_pair(A, B, st1, i, j, t + 1, d)
         ELSE tests_on_pair(A, B, [st EXCEPT !.match = None], i, j, t + 1, d)

\* `for b_layer in b_layers: for a_layer in a_layers:` from the pair (A[i], B[j])
\* on, with the test for a new layer after each scan of A
RECURSIVE correlate(_, _, _, _, _)
correlate(A, B, st, j, i) ==
    IF j > Len(B) THEN st
    ELSE IF i > Len(A)
    THEN LET new == st.match = None /\ ~ is_resolved_b(B[j], st.resolved_b)
             st1 == IF new
                    THEN [st EXCEPT !.resolved_b = @ \cup { B[j].name },
                                    !.added = Append(@, j)]
                    ELSE st
         IN  correlate(A, B, [st1 EXCEPT !.match = None], j + 1, 1)
    ELSE LET d == CHOOSE x \in _layer_diff(A[i], B[j]) : TRUE
         IN  correlate(A, B, tests_on_pair(A, B, st, i, j, 1, d), j, i + 1)

\* the names of the layers compare_layers reports for the pools A and B
reported(A, B) ==
    LET st == correlate(A, B, [match |-> None, resolved_a |-> { }, resolved_b |-> { },
                               added |-> << >>, updated |-> << >>], 1, 1)
    IN  [added |-> { B[j].name : j \in Range(st.added) },
         updated |-> { B[j].name : j \in Range(st.updated) },
         removed |-> { A[i].name : i \in { n \in 1..Len(A) :
                                            ~ is_resolved_a(A[n], st.resolved_a) } }]

\* the names of the layers in the lists of the state
ReportedNames ==
    [added |-> { b_layers[j].name : j \in Range(added) },
     updated |-> { b_layers[j].name : j \in Range(updated) },
     removed |-> { a_layers[i].name : i \in Range(removed) }]

\* a list in every order
Reorderings(s) ==
    { [n \in 1..Len(s) |-> s[p[n]]] : p \in Permutations(1..Len(s)) }

\* the loop of the state reports what the function gives for its pools
LoopAgreesWithFunction == pc = "done" => ReportedNames = reported(a_layers, b_layers)

\* C27: when the loop has ended on pools with unique names, the layers it
\* reports as added, updated and removed are those it reports for the same
\* pools in any other order of the before-layers and of the after-layers.
C27_OrderIndependent ==
    DoneOnUniqueNames =>
        \A A \in Reorderings(a_layers), B \in Reorderings(b_layers) :
            reported(A, B) = ReportedNames

\* one after-layer takes the before-layer that the other after-layer would have
\* been correlated with by a more specific rule, without any second match
C27_Scenario ==
    /\ DoneOnUniqueNames /\ NoSecondMatch
    /\ \E B \in Reorderings(b_layers) :
          reported(a_layers, B).added # ReportedNames.added

-----------------------------------------------------------------------------
(* Alignment of the list create_replacement_data_sources_list returns,     *)
(* checked under SpecTemplates                                             *)

\* what match_new_data_source returns for a record of the input
ReturnedFor(item) == match_new_data_source(t_sets[1], t_strict, item).value

\* the list out holds, position by position, what match_new_data_source
\* returns for the records of the list in
AlignedWith(out, in) ==
    /\ Len(out) = Len(in)
    /\ \A i \in 1..Len(in) :
          /\ out[i] = ReturnedFor(in[i])
          /\ in[i] = None => out[i] = None

\* C28: the returned list has one entry per input map, and in each entry
\* layers and tableViews have the length and the order of the input lists, a
\* None record giving None at its position; a None record never makes the call
\* raise, in strict mode either.
C28_PositionallyAligned ==
    /\ t_result # None =>
          /\ Len(t_result[1]) = Len(t_docs)
          /\ \A m \in 1..Len(t_docs) :
                /\ DOMAIN t_result[1][m] = { "layers", "tableViews" }
                /\ AlignedWith(t_result[1][m].layers, t_docs[m].layers)
                /\ AlignedWith(t_result[1][m].tableViews, t_docs[m].tableViews)
    /\ (t_at > 0 /\ TemplateItems(t_docs)[t_at] = None) =>
          /\ t_raised.type = "none"
          /\ Len(t_out) = t_at /\ t_out[t_at] = None

\* a strict call returned for a document with a group-layer placeholder among
\* its layers and a None among its tables, next to records that got a payload
C28_Witness ==
    /\ t_strict
    /\ t_result # None
    /\ \E m \in 1..Len(t_docs) : \E i \in 1..Len(t_docs[m].layers) :
          /\ t_docs[m].layers[i] = None
          /\ t_result[1][m].layers[i] = None
          /\ \E k \in 1..Len(t_docs[m].layers) : t_result[1][m].layers[k] # None
    /\ \E m \in 1..Len(t_docs) : \E i \in 1..Len(t_docs[m].tableViews) :
          t_docs[m].tableViews[i] # None /\ t_result[1][m].tableViews[i] # None

====
